---------------------------- MODULE Spec2Model ----------------------------
(***************************************************************************)
(* A model of llamafile/iqk_mul_mat.cpp: the AVX2 k-quant x Q8_K matrix    *)
(* multiplication.  The integer SIMD path is modelled lane by lane          *)
(* (bytes, 16-bit lanes with maddubs saturation, 32-bit lanes); the fp32   *)
(* path is modelled in fixed point: an fp32 vector lane or result holds    *)
(* FpUnit times its value, as an integer, which fp32 holds exactly up to   *)
(* 24 significant bits and rounds to nearest-even above.  The block scales *)
(* d, dmin are drawn from small integers.                                  *)
(***************************************************************************)
EXTENDS Integers, Sequences, FiniteSets, TLC

VARIABLES
    Nx, Ny, ne00, typeA, nth, stride_C,  \* arguments shared by the nth calls
    serial,      \* TRUE: the caller runs the calls ith = 0, 1, ... one after another
    pc,          \* per worker: "idle", "peel", "done", "unhandled", "aborted"
    wk,          \* per worker: the locals of iqk_mul_mat / mul_mat_NxM
    C,           \* the output buffer: index -> value, Poison where never written
    nwrites,     \* per C index: how many stores hit it
    writer,      \* per C index: the set of workers that stored to it
    calls,       \* per worker: the micro-kernel invocations made, in order
    loadsA,      \* per worker: the loads from A its kernels issued
    loadsB,      \* per worker: the loads from B its kernels issued
    ret,         \* per worker: the value returned ("none" before the return)
    kt, kx, ky,  \* kernel bench: format, one A row, eight B columns
    kstage,      \* kernel bench: index of the next kernel width to run
    kout,        \* kernel bench: per width, the outputs per column
    klane,       \* kernel bench: per width, <<min, max>> of the exact maddubs sums
    msx, msy, msp, \* mul_signed bench: operand pairs and the 16-bit lane produced
    mats,        \* which matrices A and B hold ("none" on the benches)
    sfield,      \* scale bench: the block whose packed scales are decoded
    skind,       \* scale bench: the format of the block
    sdec         \* scale bench: what the kernel decodes from it, <<>> before

vars == <<Nx, Ny, ne00, typeA, nth, stride_C, serial, pc, wk, C, nwrites, writer,
          calls, loadsA, loadsB, ret, kt, kx, ky, kstage, kout, klane, msx, msy, msp,
          mats, sfield, skind, sdec>>

shimvars == <<Nx, Ny, ne00, typeA, nth, stride_C, serial, pc, wk, C, nwrites, writer,
              calls, loadsA, loadsB, ret, mats>>
kernvars == <<kt, kx, ky, kstage, kout, klane>>
signvars == <<msx, msy, msp>>
scalevars == <<sfield, skind, sdec>>

QK_K == 256

-----------------------------------------------------------------------------
(* Integer widths *)

U8(v) == v % 256
S8(b) == IF b % 256 >= 128 THEN (b % 256) - 256 ELSE b % 256
U16(v) == v % 65536
S16(w) == IF w % 65536 >= 32768 THEN (w % 65536) - 65536 ELSE w % 65536
(* a 32-bit lane: TLC's own integers are 32-bit and it reports an overflow as
   an error, so a lane that left the int32 range would stop the check *)
S32(w) == w
Sat16(v) == IF v > 32767 THEN 32767 ELSE IF v < -32768 THEN -32768 ELSE v

RECURSIVE BitAnd(_, _)
BitAnd(a, b) == IF a = 0 \/ b = 0 THEN 0
                ELSE (a % 2) * (b % 2) + 2 * BitAnd(a \div 2, b \div 2)

RECURSIVE BitOr(_, _)
BitOr(a, b) == IF a = 0 THEN b ELSE IF b = 0 THEN a
               ELSE (IF a % 2 = 1 \/ b % 2 = 1 THEN 1 ELSE 0)
                    + 2 * BitOr(a \div 2, b \div 2)

Shr(a, n) == a \div (2 ^ n)

(* byte k (0 = least significant) of a 16-bit lane *)
ByteOf(w, k) == (w \div (256 ^ k)) % 256

(* A uint32_t is held as its four bytes, least significant first.           *)
(* Word32: the little-endian word at bytes 4k .. 4k+3 of a byte array;      *)
(* WShr, WShl: w >> s and (uint32_t)(w << s) for 0 <= s < 8, bits crossing  *)
(* from byte to byte; WAnd: w & m for a mask repeating the byte m.          *)
Word32(bytes, k) == [b \in 0..3 |-> bytes[4*k + b]]
WShr(w, s) == [b \in 0..3 |->
                 ((w[b] + 256 * (IF b < 3 THEN w[b + 1] ELSE 0)) \div (2 ^ s)) % 256]
WShl(w, s) == [b \in 0..3 |->
                 ((((IF b > 0 THEN w[b - 1] ELSE 0) + 256 * w[b]) * (2 ^ s)) \div 256) % 256]
WAnd(w, m) == [b \in 0..3 |-> BitAnd(w[b], m)]
WOr(v, w) == [b \in 0..3 |-> BitOr(v[b], w[b])]

-----------------------------------------------------------------------------
(* fp32 in fixed point: lanes hold FpUnit * value; scalars (d, dmin, the   *)
(* Q8_K scale) hold the value itself                                       *)

FpUnit == 2 ^ 4

RECURSIVE Ulp(_, _)
Ulp(a, u) == IF a \div u < 16777216 THEN u ELSE Ulp(a, 2 * u)

RoundF32(v) ==
    LET a == IF v < 0 THEN -v ELSE v
        u == Ulp(a, 1)
        q == a \div u
        r == a % u
        up == (2 * r > u) \/ (2 * r = u /\ q % 2 = 1)
        m == (IF up THEN q + 1 ELSE q) * u
    IN IF a < 16777216 THEN v ELSE IF v < 0 THEN -m ELSE m

mm_cvtepi32_ps(v) == [L \in DOMAIN v |-> RoundF32(FpUnit * v[L])]
mm_fmadd_ps(a, b, c) == [L \in DOMAIN b |-> RoundF32(a * b[L] + c[L])]
mm_add_ps(a, b) == [L \in DOMAIN a |-> RoundF32(a[L] + b[L])]
mm256_setzero_ps == [L \in 0..7 |-> 0]
mm_setzero_ps == [L \in 0..3 |-> 0]
castps256_ps128(x) == [L \in 0..3 |-> x[L]]
extractf128_ps(x) == [L \in 0..3 |-> x[L + 4]]

hsum_float_4(x) ==
    LET x1 == [L \in 0..3 |-> RoundF32(x[L] + x[IF L < 2 THEN L + 2 ELSE L])]
    IN RoundF32(x1[0] + x1[1])

hsum_float_8(x) == hsum_float_4(mm_add_ps(castps256_ps128(x), extractf128_ps(x)))

(* x * 2^-k in fp32, k <= 4: exact, a lane being a multiple of 1/FpUnit *)
MulPow2Inv(x, k) == x \div (2 ^ k)

-----------------------------------------------------------------------------
(* AVX2 integer operations.  A byte vector is a function 0..n-1 -> 0..255   *)
(* (int8 operands are kept signed where noted), an epi16 vector a function  *)
(* 0..n/2-1 -> int16, an epi32 vector a function -> int32.                  *)

mm256_and_si256(v, m) == [k \in DOMAIN v |-> BitAnd(v[k], m)]
mm256_or_si256(a, b) == [k \in DOMAIN a |-> BitOr(a[k], b[k])]
mm256_add_epi8(a, b) == [k \in DOMAIN a |-> U8(a[k] + b[k])]

mm256_srli_epi16(v, s) ==
    [k \in DOMAIN v |->
        LET lane == v[2 * (k \div 2)] + 256 * v[2 * (k \div 2) + 1]
            sh == Shr(lane, s)
        IN IF k % 2 = 0 THEN sh % 256 ELSE sh \div 256]

mm256_slli_epi16(v, s) ==
    [k \in DOMAIN v |->
        LET lane == v[2 * (k \div 2)] + 256 * v[2 * (k \div 2) + 1]
            sh == U16(lane * (2 ^ s))
        IN IF k % 2 = 0 THEN sh % 256 ELSE sh \div 256]

mm256_cvtepi8_epi16(v) == [m \in DOMAIN v |-> S8(v[m])]
mm256_cvtepu8_epi16(v) == [m \in DOMAIN v |-> U8(v[m])]

(* the exact sum a maddubs lane stands for, before saturation *)
maddubs_exact(a, b, m) == U8(a[2*m]) * b[2*m] + U8(a[2*m+1]) * b[2*m+1]

mm256_maddubs_epi16(a, b) == [m \in 0..15 |-> Sat16(maddubs_exact(a, b, m))]

mm256_madd_epi16(a, b) ==
    [L \in 0..((Cardinality(DOMAIN a) \div 2) - 1) |->
        S32(a[2*L] * b[2*L] + a[2*L+1] * b[2*L+1])]

mm256_add_epi32(a, b) == [L \in DOMAIN a |-> S32(a[L] + b[L])]
mm256_setzero_si256 == [L \in 0..7 |-> 0]

mm_hadd_epi16(a, b) ==
    [m \in 0..7 |-> IF m < 4 THEN S16(a[2*m] + a[2*m+1])
                    ELSE S16(b[2*(m-4)] + b[2*(m-4)+1])]

mm256_sign_epi8(a, b) ==
    [k \in DOMAIN a |-> IF b[k] < 0 THEN S8(-a[k]) ELSE IF b[k] = 0 THEN 0 ELSE a[k]]

(* MM256_SET_M128I(a, b): b in the low half, a in the high half *)
MM256_SET_M128I(a, b) ==
    LET n == Cardinality(DOMAIN b)
    IN [k \in 0..(2*n - 1) |-> IF k < n THEN b[k] ELSE a[k - n]]

Lo128(v) == [k \in 0..((Cardinality(DOMAIN v) \div 2) - 1) |-> v[k]]
Hi128(v) ==
    LET n == Cardinality(DOMAIN v) \div 2 IN [k \in 0..(n - 1) |-> v[k + n]]

(* byte b of an epi16 vector *)
ByteOfLanes(v, b) == ByteOf(U16(v[b \div 2]), b % 2)

(* _mm256_shuffle_epi8 of an epi16 vector by a byte control (all < 128):
   each 128-bit half picks among its own 16 bytes *)
mm256_shuffle_epi8(v, ctrl) ==
    [m \in 0..15 |->
        LET h == 16 * (m \div 8)
        IN S16(ByteOfLanes(v, h + (ctrl[2*m] % 16))
               + 256 * ByteOfLanes(v, h + (ctrl[2*m+1] % 16)))]

get_scale_shuffle_8(i) == [k \in 0..31 |-> IF k % 2 = 0 THEN 2*i ELSE 2*i + 1]

k_shuffle ==
    << 0, 1, 0, 1, 0, 1, 0, 1, 0, 1, 0, 1, 0, 1, 0, 1,
       2, 3, 2, 3, 2, 3, 2, 3, 2, 3, 2, 3, 2, 3, 2, 3,
       4, 5, 4, 5, 4, 5, 4, 5, 4, 5, 4, 5, 4, 5, 4, 5,
       6, 7, 6, 7, 6, 7, 6, 7, 6, 7, 6, 7, 6, 7, 6, 7,
       8, 9, 8, 9, 8, 9, 8, 9, 8, 9, 8, 9, 8, 9, 8, 9,
       10,11,10,11,10,11,10,11,10,11,10,11,10,11,10,11,
       12,13,12,13,12,13,12,13,12,13,12,13,12,13,12,13,
       14,15,14,15,14,15,14,15,14,15,14,15,14,15,14,15 >>

get_scale_shuffle_16(i) == [k \in 0..31 |-> k_shuffle[32*i + k + 1]]

(* 32 bytes of a field starting at byte off *)
loadu_si256(field, off) == [k \in 0..31 |-> field[off + k]]
loadu_si128(field, off) == [k \in 0..15 |-> field[off + k]]

(* a faulty make_q4_scales: the shifted a0 is masked with 0x3C3C3C3C *)
make_q4_scales_leak(scales8) ==
    LET a0 == Word32(scales8, 0)
        a1 == Word32(scales8, 1)
        a2 == Word32(scales8, 2)
    IN [k \in 0..3 |->
          CASE k = 3 -> WOr(WAnd(WShr(a2, 4), 15), WAnd(WShr(a1, 2), 48))
            [] k = 1 -> WOr(WAnd(WShr(a2, 0), 15), WAnd(WShr(a0, 2), 60))
            [] k = 2 -> WAnd(a1, 63)
            [] k = 0 -> WAnd(a0, 63)]

make_q4_scales(scales8) ==
    LET a0 == Word32(scales8, 0)
        a1 == Word32(scales8, 1)
        a2 == Word32(scales8, 2)
    IN [k \in 0..3 |->
          CASE k = 3 -> WOr(WAnd(WShr(a2, 4), 15), WAnd(WShr(a1, 2), 48))
            [] k = 1 -> WOr(WAnd(WShr(a2, 0), 15), WAnd(WShr(a0, 2), 48))
            [] k = 2 -> WAnd(a1, 63)
            [] k = 0 -> WAnd(a0, 63)]

(* struct Q8: one column is a sequence of block_q8_K {d, qs[256], bsums[16]} *)
load_quants(y, i, j) == [k \in 0..31 |-> y[i + 1].qs[32*j + k]]
load_bsums(y, i) == y[i + 1].bsums
scale(y, i) == y[i + 1].d

-----------------------------------------------------------------------------
(* The block decoders.  Each yields, for one super-block x of A and the    *)
(* kernel width nrc_y, the operands of the integer path in program order:  *)
(*   q     the 32 decoded A bytes handed to maddubs (or mul_signed),       *)
(*   chunk which 32 Q8_K quants they meet (load_quants(iy, i, chunk)),     *)
(*   sc    the 16 broadcast 16-bit scales handed to madd,                  *)
(*   acc   the integer accumulator the product is added to (sumi[k*iy+acc]),*)
(*   sgn   TRUE when the product is mul_signed rather than maddubs.        *)

Op(q, chunk, sc, acc, sgn) == [q |-> q, chunk |-> chunk, sc |-> sc, acc |-> acc, sgn |-> sgn]

(* the two 256-bit scale registers scales[0], scales[1] built from 16 lanes *)
scales_pair(all_scales, j) ==
    IF j = 0 THEN MM256_SET_M128I(Lo128(all_scales), Lo128(all_scales))
    ELSE MM256_SET_M128I(Hi128(all_scales), Hi128(all_scales))

(* ---- q2_K ---- *)
q2_K_scales8(x) == mm256_and_si256(loadu_si128(x.scales, 0), 15)
q2_K_mins(x) ==
    mm256_cvtepi8_epi16(mm256_and_si256(mm256_srli_epi16(loadu_si128(x.scales, 0), 4), 15))

q2_K_ops(nrc_y, x) ==
    LET all_scales == mm256_cvtepi8_epi16(q2_K_scales8(x))
    IN [n \in 1..8 |->
          LET j == (n - 1) \div 4
              l == ((n - 1) % 4) \div 2
              w == (n - 1) % 2
              q2bits0 == loadu_si256(x.qs, 32 * j)
              q2bits == IF l = 0 THEN q2bits0 ELSE mm256_srli_epi16(q2bits0, 4)
              scales_w == mm256_shuffle_epi8(scales_pair(all_scales, j),
                                             get_scale_shuffle_16(2*l + w))
              q2_0 == mm256_and_si256(q2bits, 3)
              q2_1 == IF nrc_y <= 2 THEN mm256_and_si256(q2bits, 12)
                      ELSE mm256_and_si256(mm256_srli_epi16(q2bits, 2), 3)
          IN IF w = 0 THEN Op(q2_0, 4*j + 2*l + 0, scales_w, 0, FALSE)
             ELSE Op(q2_1, 4*j + 2*l + 1, scales_w, IF nrc_y <= 2 THEN 1 ELSE 0, FALSE)]

(* ---- q3_K ---- *)
(* a faulty setup: the second and third words of _mm_set_epi32 are exchanged *)
q3_K_scales128_swapped(x) ==
    LET aux0 == Word32(x.scales, 0)
        aux1 == Word32(x.scales, 1)
        aux2 == Word32(x.scales, 2)
        e3 == WOr(WAnd(WShr(aux1, 4), 15), WAnd(WShr(aux2, 2), 48))
        e2 == WOr(WAnd(WShr(aux0, 4), 15), WAnd(WShr(aux2, 0), 48))
        e1 == WOr(WAnd(aux1, 15), WAnd(WShl(aux2, 2), 48))
        e0 == WOr(WAnd(aux0, 15), WAnd(WShl(aux2, 4), 48))
        set_epi32 == <<e0, e2, e1, e3>>
    IN [k \in 0..15 |-> U8(set_epi32[(k \div 4) + 1][k % 4] - 32)]

q3_K_scales128(x) ==
    LET aux0 == Word32(x.scales, 0)
        aux1 == Word32(x.scales, 1)
        aux2 == Word32(x.scales, 2)
        e3 == WOr(WAnd(WShr(aux1, 4), 15), WAnd(WShr(aux2, 2), 48))
        e2 == WOr(WAnd(WShr(aux0, 4), 15), WAnd(WShr(aux2, 0), 48))
        e1 == WOr(WAnd(aux1, 15), WAnd(WShl(aux2, 2), 48))
        e0 == WOr(WAnd(aux0, 15), WAnd(WShl(aux2, 4), 48))
        set_epi32 == <<e0, e1, e2, e3>>
    IN [k \in 0..15 |-> U8(set_epi32[(k \div 4) + 1][k % 4] - 32)]

q3_K_all_scales(x) == mm256_cvtepi8_epi16(q3_K_scales128(x))

q3_K_ops(nrc_y, x) ==
    LET all_scales == q3_K_all_scales(x)
        hbits0 == loadu_si256(x.hmask, 0)
    IN [n \in 1..8 |->
          LET j == (n - 1) \div 4
              p == (n - 1) % 4
              hbits == IF j = 0 THEN hbits0 ELSE mm256_srli_epi16(hbits0, 4)
              scales_p == mm256_shuffle_epi8(scales_pair(all_scales, j),
                                             get_scale_shuffle_16(p))
              q3bits == loadu_si256(x.qs, 32 * j)
              q3h == CASE p = 0 -> mm256_and_si256(mm256_slli_epi16(hbits, 2), 4)
                       [] p = 1 -> mm256_and_si256(mm256_slli_epi16(hbits, 1), 4)
                       [] p = 2 -> mm256_and_si256(hbits, 4)
                       [] p = 3 -> mm256_and_si256(mm256_srli_epi16(hbits, 1), 4)
              q3 == mm256_or_si256(
                        mm256_and_si256(mm256_srli_epi16(q3bits, 2 * p), 3), q3h)
          IN Op(q3, 4*j + p, scales_p, 0, FALSE)]

(* ---- q4_K / q5_K scales ---- *)
q4_K_mins_and_scales(x) ==
    LET utmp == make_q4_scales(x.scales)
    IN mm256_cvtepu8_epi16([k \in 0..15 |-> utmp[k \div 4][k % 4]])

q4_K_scales(x) ==
    LET sc128 == Lo128(q4_K_mins_and_scales(x)) IN MM256_SET_M128I(sc128, sc128)

(* a faulty extraction: the mins are taken from the low half *)
q4_K_mins_low(x) == Lo128(q4_K_mins_and_scales(x))

q4_K_mins(x) == Hi128(q4_K_mins_and_scales(x))

(* ---- q4_K ---- *)
q4_K_ops(nrc_y, x) ==
    LET scales == q4_K_scales(x)
    IN [n \in 1..8 |->
          LET j == (n - 1) \div 2
              w == (n - 1) % 2
              q4bits == loadu_si256(x.qs, 32 * j)
              q4l == mm256_and_si256(q4bits, 15)
              q4h == IF nrc_y <= 2 THEN mm256_and_si256(q4bits, 240)
                     ELSE mm256_and_si256(mm256_srli_epi16(q4bits, 4), 15)
              scales_w == mm256_shuffle_epi8(scales, get_scale_shuffle_8(2*j + w))
          IN IF w = 0 THEN Op(q4l, 2*j + 0, scales_w, 0, FALSE)
             ELSE Op(q4h, 2*j + 1, scales_w, IF nrc_y <= 2 THEN 1 ELSE 0, FALSE)]

(* ---- q5_K ---- *)
q5_K_ops(nrc_y, x) ==
    LET scales == q4_K_scales(x)
        hbits0 == loadu_si256(x.qh, 0)
    IN [n \in 1..8 |->
          LET j == (n - 1) \div 4
              p == (n - 1) % 4
              hbits == IF j = 0 THEN hbits0 ELSE mm256_srli_epi16(hbits0, 4)
              scales_p == mm256_shuffle_epi8(scales, get_scale_shuffle_8(4*j + p))
              q5h == mm256_and_si256(mm256_slli_epi16(hbits, 4 - p), 16)
              q5bits == loadu_si256(x.qs, 64 * j + 32 * (p \div 2))
              lo == IF p % 2 = 0 THEN mm256_and_si256(q5bits, 15)
                    ELSE mm256_and_si256(mm256_srli_epi16(q5bits, 4), 15)
          IN Op(mm256_add_epi8(lo, q5h), 4*j + p, scales_p, 0, FALSE)]

(* ---- q6_K ---- *)
(* faulty: the sub-block scales widened as unsigned bytes *)
q6_K_scales16_unsigned(x) == mm256_cvtepu8_epi16(loadu_si128(x.scales, 0))

q6_K_scales16(x) == mm256_cvtepi8_epi16(loadu_si128(x.scales, 0))

q6_K_ops(nrc_y, x) ==
    LET scales16 == q6_K_scales16(x)
    IN [n \in 1..8 |->
          LET j == (n - 1) \div 4
              p == (n - 1) % 4
              scale_p == mm256_shuffle_epi8(scales_pair(scales16, j),
                                            get_scale_shuffle_16(p))
              q4bits1 == loadu_si256(x.ql, 64 * j)
              q4bits2 == loadu_si256(x.ql, 64 * j + 32)
              q4bitsH == loadu_si256(x.qh, 32 * j)
              q4h == CASE p = 0 -> mm256_and_si256(mm256_slli_epi16(q4bitsH, 4), 48)
                       [] p = 1 -> mm256_and_si256(mm256_slli_epi16(q4bitsH, 2), 48)
                       [] p = 2 -> mm256_and_si256(q4bitsH, 48)
                       [] p = 3 -> mm256_and_si256(mm256_srli_epi16(q4bitsH, 2), 48)
              lo == CASE p = 0 -> mm256_and_si256(q4bits1, 15)
                      [] p = 1 -> mm256_and_si256(q4bits2, 15)
                      [] p = 2 -> mm256_and_si256(mm256_srli_epi16(q4bits1, 4), 15)
                      [] p = 3 -> mm256_and_si256(mm256_srli_epi16(q4bits2, 4), 15)
          IN Op(mm256_or_si256(lo, q4h), 4*j + p, scale_p, 0, FALSE)]

(* ---- iq4_xs ---- *)
kvalues_iq4nl == <<-127, -104, -83, -65, -49, -35, -22, -10, 1, 13, 25, 38, 53, 69, 89, 113>>

iq4_xs_lshuffle == <<0, 4, 1, 5, 2, 6, 3, 7, 0, 4, 1, 5, 2, 6, 3, 7>>
iq4_xs_hshift == <<0, 4, 8, 12>>
iq4_xs_lshift == <<0, 4, 0, 4>>

(* a faulty setup: the two 16-bit halves of each shifted word are exchanged *)
iq4_xs_scales128_swapped(x) ==
    LET tmp32 == BitOr(x.scales_h, x.scales_h * (2 ^ 14))
        sh == [m \in 0..7 |->
                 LET w == Shr(tmp32, iq4_xs_hshift[(m \div 2) + 1])
                     lane == IF m % 2 = 1 THEN w % 65536 ELSE (w \div 65536) % 65536
                 IN U16(BitAnd(lane, 3) * 16)]
        l32 == Word32(x.scales_l, 0)
        sl == [k \in 0..15 |->
                 BitAnd(WShr(l32, iq4_xs_lshift[(k \div 4) + 1])[k % 4], 15)]
        shuf == [k \in 0..15 |-> sl[iq4_xs_lshuffle[k + 1]]]
        lo16 == [m \in 0..7 |-> S8(shuf[m])]
    IN [m \in 0..7 |-> S16(BitOr(sh[m], U16(lo16[m])) + (-32))]

(* the eight 16-bit lanes of scales128 *)
iq4_xs_scales128(x) ==
    LET tmp32 == BitOr(x.scales_h, x.scales_h * (2 ^ 14))
        (* srlv_epi32 by hshift, and with 0x0003 per 16-bit lane, slli_epi16 4 *)
        sh == [m \in 0..7 |->
                 LET w == Shr(tmp32, iq4_xs_hshift[(m \div 2) + 1])
                     lane == IF m % 2 = 0 THEN w % 65536 ELSE (w \div 65536) % 65536
                 IN U16(BitAnd(lane, 3) * 16)]
        l32 == Word32(x.scales_l, 0)
        (* srlv_epi32 by lshift, and with 0x0f per byte *)
        sl == [k \in 0..15 |->
                 BitAnd(WShr(l32, iq4_xs_lshift[(k \div 4) + 1])[k % 4], 15)]
        shuf == [k \in 0..15 |-> sl[iq4_xs_lshuffle[k + 1]]]
        lo16 == [m \in 0..7 |-> S8(shuf[m])]
    IN [m \in 0..7 |-> S16(BitOr(sh[m], U16(lo16[m])) + (-32))]

dequant(qs, off) ==
    LET aux128 == loadu_si128(qs, off)
        aux256 == MM256_SET_M128I(mm256_srli_epi16(aux128, 4), aux128)
    IN mm256_and_si256(aux256, 15)

(* _mm256_shuffle_epi8(values, idx): the table lookup, as signed bytes *)
lookup_values(idx) == [k \in DOMAIN idx |-> kvalues_iq4nl[(idx[k] % 16) + 1]]

mul_signed(x, y) ==
    LET ux == mm256_sign_epi8(x, x)
        sy == mm256_sign_epi8(y, x)
    IN mm256_maddubs_epi16(ux, sy)

iq4_xs_ops(nrc_y, x) ==
    LET scales128 == iq4_xs_scales128(x)
        scales == MM256_SET_M128I(scales128, scales128)
    IN [n \in 1..8 |->
          LET j == (n - 1) \div 2
              w == (n - 1) % 2
              q4b == lookup_values(dequant(x.qs, 32 * j + 16 * w))
              scales_w == mm256_shuffle_epi8(scales, get_scale_shuffle_8(2*j + w))
          IN Op(q4b, 2*j + w, scales_w, 0, TRUE)]

-----------------------------------------------------------------------------
(* The integer path shared by the six micro-kernels *)

SupportedTypes == {"Q2_K", "Q3_K", "Q4_K", "Q5_K", "Q6_K", "IQ4_XS"}

decode(t, nrc_y, x) ==
    CASE t = "Q2_K" -> q2_K_ops(nrc_y, x)
      [] t = "Q3_K" -> q3_K_ops(nrc_y, x)
      [] t = "Q4_K" -> q4_K_ops(nrc_y, x)
      [] t = "Q5_K" -> q5_K_ops(nrc_y, x)
      [] t = "Q6_K" -> q6_K_ops(nrc_y, x)
      [] t = "IQ4_XS" -> iq4_xs_ops(nrc_y, x)

(* the 16-bit products of one operand with its Q8_K quants *)
dot16(op, y, i) ==
    IF op.sgn THEN mul_signed(op.q, load_quants(y, i, op.chunk))
    ELSE mm256_maddubs_epi16(op.q, load_quants(y, i, op.chunk))

RECURSIVE sumi_of(_, _, _, _, _)
sumi_of(ops, n, acc, y, i) ==
    IF n = 0 THEN mm256_setzero_si256
    ELSE IF ops[n].acc = acc
         THEN mm256_add_epi32(sumi_of(ops, n - 1, acc, y, i),
                              mm256_madd_epi16(ops[n].sc, dot16(ops[n], y, i)))
         ELSE sumi_of(ops, n - 1, acc, y, i)

-----------------------------------------------------------------------------
(* The micro-kernels, for one row x (a sequence of nb super-blocks of A)   *)
(* and one of the nrc_y columns y (a sequence of nb Q8_K super-blocks).    *)
(* acc holds the float accumulators of that column: d0 = accd[iy] (or      *)
(* accd[2*iy+0]), d1 = accd[2*iy+1], m = accm[iy].                          *)

Acc(d0, d1, m) == [d0 |-> d0, d1 |-> d1, m |-> m]

q2_K_block(nrc_y, x, y, i, acc) ==
    LET d2 == x.d
        c2 == -x.dmin
        prod == mm256_madd_epi16(q2_K_mins(x), load_bsums(y, i))
        a0 == mm_fmadd_ps(c2 * scale(y, i), mm_cvtepi32_ps(prod), acc.d0)
        ops == q2_K_ops(nrc_y, x)
        vd == d2 * scale(y, i)
    IN IF nrc_y <= 2
       THEN Acc(mm_fmadd_ps(vd, mm_cvtepi32_ps(sumi_of(ops, 8, 0, y, i)), a0),
                mm_fmadd_ps(vd, mm_cvtepi32_ps(sumi_of(ops, 8, 1, y, i)), acc.d1),
                acc.m)
       ELSE Acc(mm_fmadd_ps(vd, mm_cvtepi32_ps(sumi_of(ops, 8, 0, y, i)), a0),
                acc.d1, acc.m)

q2_K_store(nrc_y, acc) ==
    IF nrc_y <= 2
    THEN RoundF32(hsum_float_8(acc.d0) + MulPow2Inv(hsum_float_8(acc.d1), 2))
    ELSE hsum_float_8(acc.d0)

q3_K_block(nrc_y, x, y, i, acc) ==
    LET d3 == x.d
        vd == d3 * scale(y, i)
        prod == mm256_madd_epi16(q3_K_all_scales(x), load_bsums(y, i))
        ops == q3_K_ops(nrc_y, x)
    IN Acc(mm_fmadd_ps(vd, mm_cvtepi32_ps(sumi_of(ops, 8, 0, y, i)), acc.d0),
           acc.d1,
           mm_fmadd_ps(vd, mm_cvtepi32_ps(prod), acc.m))

(* a faulty store: the correction is scaled by 32, as in q6_K, not by 4 *)
q3_K_store_by32(nrc_y, acc) ==
    RoundF32(hsum_float_8(acc.d0) - RoundF32(32 * hsum_float_8(acc.m)))

q3_K_store(nrc_y, acc) ==
    RoundF32(hsum_float_8(acc.d0) - RoundF32(4 * hsum_float_8(acc.m)))

(* the min correction shared by q4_K and q5_K *)
q4_K_accm(x, y, i, accm) ==
    LET c == -x.dmin
        q8sums == load_bsums(y, i)
        q8s == mm_hadd_epi16(Lo128(q8sums), Hi128(q8sums))
        prod == mm256_madd_epi16(q4_K_mins(x), q8s)
    IN mm_fmadd_ps(c * scale(y, i), mm_cvtepi32_ps(prod), accm)

q4_K_block(nrc_y, x, y, i, acc) ==
    LET d == x.d
        ops == q4_K_ops(nrc_y, x)
        vd == d * scale(y, i)
    IN IF nrc_y <= 2
       THEN Acc(mm_fmadd_ps(vd, mm_cvtepi32_ps(sumi_of(ops, 8, 0, y, i)), acc.d0),
                mm_fmadd_ps(vd, mm_cvtepi32_ps(sumi_of(ops, 8, 1, y, i)), acc.d1),
                q4_K_accm(x, y, i, acc.m))
       ELSE Acc(mm_fmadd_ps(vd, mm_cvtepi32_ps(sumi_of(ops, 8, 0, y, i)), acc.d0),
                acc.d1,
                q4_K_accm(x, y, i, acc.m))

q4_K_store(nrc_y, acc) ==
    IF nrc_y <= 2
    THEN RoundF32(RoundF32(hsum_float_8(acc.d0) + MulPow2Inv(hsum_float_8(acc.d1), 4))
                  + hsum_float_4(acc.m))
    ELSE LET d == mm_add_ps(castps256_ps128(acc.d0), extractf128_ps(acc.d0))
         IN hsum_float_4(mm_add_ps(d, acc.m))

q5_K_block(nrc_y, x, y, i, acc) ==
    LET d == x.d
        ops == q5_K_ops(nrc_y, x)
        vd == d * scale(y, i)
    IN Acc(mm_fmadd_ps(vd, mm_cvtepi32_ps(sumi_of(ops, 8, 0, y, i)), acc.d0),
           acc.d1,
           q4_K_accm(x, y, i, acc.m))

q5_K_store(nrc_y, acc) ==
    LET d == mm_add_ps(castps256_ps128(acc.d0), extractf128_ps(acc.d0))
    IN hsum_float_4(mm_add_ps(d, acc.m))

q6_K_block(nrc_y, x, y, i, acc) ==
    LET d6 == x.d
        vd == d6 * scale(y, i)
        prod == mm256_madd_epi16(q6_K_scales16(x), load_bsums(y, i))
        ops == q6_K_ops(nrc_y, x)
    IN Acc(mm_fmadd_ps(vd, mm_cvtepi32_ps(sumi_of(ops, 8, 0, y, i)), acc.d0),
           acc.d1,
           mm_fmadd_ps(vd, mm_cvtepi32_ps(prod), acc.m))

(* a faulty store: the correction is scaled by 4, as in q3_K, not by 32 *)
q6_K_store_by4(nrc_y, acc) ==
    RoundF32(hsum_float_8(acc.d0) - RoundF32(4 * hsum_float_8(acc.m)))

q6_K_store(nrc_y, acc) ==
    RoundF32(hsum_float_8(acc.d0) - RoundF32(32 * hsum_float_8(acc.m)))

iq4_xs_block(nrc_y, x, y, i, acc) ==
    LET ops == iq4_xs_ops(nrc_y, x)
        vd == x.d * scale(y, i)
    IN Acc(mm_fmadd_ps(vd, mm_cvtepi32_ps(sumi_of(ops, 8, 0, y, i)), acc.d0),
           acc.d1, acc.m)

(* a faulty store: only the low four lanes of the accumulator are summed *)
iq4_xs_store_low(nrc_y, acc) == hsum_float_4(castps256_ps128(acc.d0))

iq4_xs_store(nrc_y, acc) == hsum_float_8(acc.d0)

(* the accumulators zeroed at the top of the ix loop *)
acc_zero(t) ==
    Acc(mm256_setzero_ps, mm256_setzero_ps,
        IF t \in {"Q4_K", "Q5_K"} THEN mm_setzero_ps ELSE mm256_setzero_ps)

(* for (int i = 0; i < nb; ++i): the accumulators after super-blocks i .. nb-1 *)
RECURSIVE super_blocks(_, _, _, _, _, _, _)
super_blocks(t, nrc_y, nb, x, y, i, acc) ==
    IF i >= nb THEN acc
    ELSE super_blocks(t, nrc_y, nb, x, y, i + 1,
            CASE t = "Q2_K" -> q2_K_block(nrc_y, x[i + 1], y, i, acc)
              [] t = "Q3_K" -> q3_K_block(nrc_y, x[i + 1], y, i, acc)
              [] t = "Q4_K" -> q4_K_block(nrc_y, x[i + 1], y, i, acc)
              [] t = "Q5_K" -> q5_K_block(nrc_y, x[i + 1], y, i, acc)
              [] t = "Q6_K" -> q6_K_block(nrc_y, x[i + 1], y, i, acc)
              [] t = "IQ4_XS" -> iq4_xs_block(nrc_y, x[i + 1], y, i, acc))

(* the value the kernels store to s[ix + iy*bs], in units of 1/FpUnit *)
mul_mat_q2_K_q8_K_T(nrc_y, n, x, y) ==
    q2_K_store(nrc_y, super_blocks("Q2_K", nrc_y, n \div QK_K, x, y, 0, acc_zero("Q2_K")))
mul_mat_q3_K_q8_K_T(nrc_y, n, x, y) ==
    q3_K_store(nrc_y, super_blocks("Q3_K", nrc_y, n \div QK_K, x, y, 0, acc_zero("Q3_K")))
mul_mat_q4_K_q8_K_T(nrc_y, n, x, y) ==
    q4_K_store(nrc_y, super_blocks("Q4_K", nrc_y, n \div QK_K, x, y, 0, acc_zero("Q4_K")))
mul_mat_q5_K_q8_K_T(nrc_y, n, x, y) ==
    q5_K_store(nrc_y, super_blocks("Q5_K", nrc_y, n \div QK_K, x, y, 0, acc_zero("Q5_K")))
mul_mat_q6_K_q8_K_T(nrc_y, n, x, y) ==
    q6_K_store(nrc_y, super_blocks("Q6_K", nrc_y, n \div QK_K, x, y, 0, acc_zero("Q6_K")))
mul_mat_iq4_xs_q8_K_T(nrc_y, n, x, y) ==
    iq4_xs_store(nrc_y, super_blocks("IQ4_XS", nrc_y, n \div QK_K, x, y, 0, acc_zero("IQ4_XS")))

(* the switch of iqk_mul_mat: the kernel family mm_nx<nrc_y> of format t *)
mul_mat_t(t, nrc_y, n, x, y) ==
    CASE t = "Q2_K" -> mul_mat_q2_K_q8_K_T(nrc_y, n, x, y)
      [] t = "Q3_K" -> mul_mat_q3_K_q8_K_T(nrc_y, n, x, y)
      [] t = "Q4_K" -> mul_mat_q4_K_q8_K_T(nrc_y, n, x, y)
      [] t = "Q5_K" -> mul_mat_q5_K_q8_K_T(nrc_y, n, x, y)
      [] t = "Q6_K" -> mul_mat_q6_K_q8_K_T(nrc_y, n, x, y)
      [] t = "IQ4_XS" -> mul_mat_iq4_xs_q8_K_T(nrc_y, n, x, y)

-----------------------------------------------------------------------------
(* The operands.  A, B are fixed test matrices: every block is generated   *)
(* from a few parameters, field byte k being (a + b*k) mod 256.            *)

Bytes(n, a, b) == [k \in 0..(n - 1) |-> (a + b * k) % 256]

(* a super-block of A of format t from the parameters g *)
ABlock(t, g) ==
    CASE t = "Q2_K" -> [d |-> g.d, dmin |-> g.dmin, scales |-> Bytes(16, g.sa, g.sb),
                        qs |-> Bytes(64, g.qa, g.qb)]
      [] t = "Q3_K" -> [d |-> g.d, scales |-> Bytes(12, g.sa, g.sb),
                        hmask |-> Bytes(32, g.ha, g.hb), qs |-> Bytes(64, g.qa, g.qb)]
      [] t = "Q4_K" -> [d |-> g.d, dmin |-> g.dmin, scales |-> Bytes(12, g.sa, g.sb),
                        qs |-> Bytes(128, g.qa, g.qb)]
      [] t = "Q5_K" -> [d |-> g.d, dmin |-> g.dmin, scales |-> Bytes(12, g.sa, g.sb),
                        qh |-> Bytes(32, g.ha, g.hb), qs |-> Bytes(128, g.qa, g.qb)]
      [] t = "Q6_K" -> [d |-> g.d, scales |-> Bytes(16, g.sa, g.sb),
                        ql |-> Bytes(128, g.qa, g.qb), qh |-> Bytes(64, g.ha, g.hb)]
      [] t = "IQ4_XS" -> [d |-> g.d, scales_h |-> 257 * g.ha + g.hb,
                          scales_l |-> Bytes(4, g.sa, g.sb), qs |-> Bytes(128, g.qa, g.qb)]

AGen(d, dmin, sa, sb, qa, qb, ha, hb) ==
    [d |-> d, dmin |-> dmin, sa |-> sa, sb |-> sb, qa |-> qa, qb |-> qb,
     ha |-> ha, hb |-> hb]

RECURSIVE SumRange(_, _, _)
SumRange(f, lo, hi) == IF lo > hi THEN 0 ELSE f[lo] + SumRange(f, lo + 1, hi)

(* a Q8_K super-block: quants S8(a + b*k), bsums the sums of 16 quants when
   sums = 1 and zero when sums = 0 *)
Q8Block(d, a, b, sums) ==
    LET qs == [k \in 0..(QK_K - 1) |-> S8(a + b * k)]
    IN [d |-> d, qs |-> qs,
        bsums |-> [m \in 0..15 |-> S16(sums * SumRange(qs, 16 * m, 16 * m + 15))]]

(* the rows of A and the columns of B the calls are run on: row r and
   column c repeat with periods NRowPat and NColPat *)
RowPats == 0..2
ColPats == 0..1

RowGen(p) ==
    CASE p = 0 -> AGen(1, 1, 1, 3, 27, 37, 5, 59)
      [] p = 1 -> AGen(2, 0, 7, 1, 255, 0, 255, 0)
      [] p = 2 -> AGen(1, 2, 2, 5, 228, 101, 90, 7)
      [] OTHER -> AGen(1, 1, 0, 0, 0, 0, 0, 0)

RowPat(t, p, nb) == [i \in 1..nb |-> ABlock(t, RowGen((p + i - 1) % Cardinality(RowPats)))]
ColPat(p, nb) ==
    [i \in 1..nb |-> IF (p + i - 1) % Cardinality(ColPats) = 0 THEN Q8Block(1, 1, 0, 1)
                     ELSE Q8Block(2, 3, 29, 1)]

MaxBlocks == 1
Widths == {1, 2, 4, 8}


-----------------------------------------------------------------------------
(* Memory.  A, B and C are addressed as the code addresses them: A and B   *)
(* by byte offset from their base pointers, C by float index.              *)

BlockBytes(t) ==
    CASE t = "Q2_K" -> 84 [] t = "Q3_K" -> 110 [] t = "Q4_K" -> 144
      [] t = "Q5_K" -> 176 [] t = "Q6_K" -> 210 [] t = "IQ4_XS" -> 136
      [] t = "Q8_K" -> 292 [] OTHER -> 0

ggml_row_size(t, ne) == (BlockBytes(t) * ne) \div QK_K

FieldLen(t, fld) ==
    CASE fld = "d" -> IF t = "Q8_K" THEN 4 ELSE 2
      [] fld = "dmin" -> 2
      [] fld = "scales" -> IF t \in {"Q2_K", "Q6_K"} THEN 16 ELSE 12
      [] fld = "scales_h" -> 2
      [] fld = "scales_l" -> 4
      [] fld = "hmask" -> 32
      [] fld = "qh" -> IF t = "Q6_K" THEN 64 ELSE 32
      [] fld = "ql" -> 128
      [] fld = "bsums" -> 32
      [] fld = "qs" -> IF t = "Q8_K" THEN 256 ELSE IF t \in {"Q2_K", "Q3_K"} THEN 64 ELSE 128

Chunks(fld, n, w) == {<<fld, w * k, w * (k + 1)>> : k \in 0..(n - 1)}

(* the byte ranges <<field, lo, hi>> a kernel loads from one super-block of A *)
ALoads(t) ==
    CASE t = "Q2_K" -> {<<"d", 0, 2>>, <<"dmin", 0, 2>>, <<"scales", 0, 16>>}
                          \cup Chunks("qs", 2, 32)
      [] t = "Q3_K" -> {<<"d", 0, 2>>, <<"scales", 0, 12>>, <<"hmask", 0, 32>>}
                          \cup Chunks("qs", 2, 32)
      [] t = "Q4_K" -> {<<"d", 0, 2>>, <<"dmin", 0, 2>>, <<"scales", 0, 12>>}
                          \cup Chunks("qs", 4, 32)
      [] t = "Q5_K" -> {<<"d", 0, 2>>, <<"dmin", 0, 2>>, <<"scales", 0, 12>>, <<"qh", 0, 32>>}
                          \cup Chunks("qs", 4, 32)
      [] t = "Q6_K" -> {<<"d", 0, 2>>, <<"scales", 0, 16>>}
                          \cup Chunks("ql", 4, 32) \cup Chunks("qh", 2, 32)
      [] t = "IQ4_XS" -> {<<"d", 0, 2>>, <<"scales_h", 0, 2>>, <<"scales_l", 0, 4>>}
                          \cup Chunks("qs", 8, 16)

(* ... and from one Q8_K super-block of a column of B *)
BLoads(t) ==
    {<<"d", 0, 4>>} \cup Chunks("qs", 8, 32)
        \cup (IF t = "IQ4_XS" THEN {} ELSE {<<"bsums", 0, 32>>})

Load(off, r) == [off |-> off, fld |-> r[1], lo |-> r[2], hi |-> r[3]]

(* Matrices with stated contents.  Row r of A takes its block scale and its
   sub-block scale bytes from MidScales; the quants are set per matrix:
     "iq4_zero"  IQ4_XS, d = 1, scales_l bytes 0x20, scales_h = 0, qs = 0
     "q3_low2"   Q3_K, qs bytes 0b10101010, hmask = 0
     "q3_mid"    Q3_K, qs = 0, hmask bytes 0xFF
   B is all ones with d = 1 for "iq4_zero" and four different columns with
   true bsums otherwise. *)
StatedMats == {"iq4_zero", "q3_low2", "q3_mid"}

MidScales == <<AGen(1, 0, 1, 0, 0, 0, 0, 0), AGen(2, 0, 1, 3, 0, 0, 0, 0),
               AGen(1, 0, 200, 77, 0, 0, 0, 0), AGen(1, 0, 255, 0, 0, 0, 0, 0)>>

StatedCols == <<Q8Block(1, 1, 0, 1), Q8Block(2, 3, 30, 1),
                Q8Block(1, 127, 0, 1), Q8Block(1, 125, 1, 1)>>

StatedRow(m, r) ==
    LET g == MidScales[(r % Len(MidScales)) + 1]
    IN CASE m = "iq4_zero" -> ABlock("IQ4_XS", AGen(1, 0, 32, 0, 0, 0, 0, 0))
         [] m = "q3_low2"  -> ABlock("Q3_K", [g EXCEPT !.qa = 170])
         [] m = "q3_mid"   -> ABlock("Q3_K", [g EXCEPT !.ha = 255])

StatedCol(m, c) ==
    IF m = "iq4_zero" THEN Q8Block(1, 1, 0, 1)
    ELSE StatedCols[(c % Len(StatedCols)) + 1]

(* the kernel calls made on the stated matrices: <<m, format, width, super-
   blocks, row, column>> *)
StatedCalls ==
    {<<"iq4_zero", "IQ4_XS", 1, 1, 0, 0>>}
        \cup {<<m, "Q3_K", 4, 1, r, c>> : m \in {"q3_low2", "q3_mid"}, r \in 0..3, c \in 0..3}

(* row pa of A and column pb of B, nb super-blocks long, under matrices m:
   the stated blocks, or else ("mixed") the patterns *)
MatRow(m, t, pa, nb) ==
    IF m \in StatedMats THEN [i \in 1..nb |-> StatedRow(m, pa)] ELSE RowPat(t, pa, nb)

MatCol(m, pb, nb) ==
    IF m \in StatedMats THEN [i \in 1..nb |-> StatedCol(m, pb)] ELSE ColPat(pb, nb)

Tabulated(m, t, M, nb, pa, pb) ==
    IF m \in StatedMats THEN <<m, t, M, nb, pa, pb>> \in StatedCalls
    ELSE pa \in RowPats /\ pb \in ColPats

(* what a width-M kernel of format t stores for row pa and column pb of the
   matrices m, rows of nb super-blocks *)
KernelValue ==
    [m \in StatedMats \cup {"mixed"}, t \in SupportedTypes, M \in Widths,
     nb \in 0..MaxBlocks, pa \in 0..3, pb \in 0..3 |->
        IF Tabulated(m, t, M, nb, pa, pb)
        THEN mul_mat_t(t, M, nb * QK_K, MatRow(m, t, pa, nb), MatCol(m, pb, nb))
        ELSE <<>>]

(* the row of A at byte offset off when rows are bx bytes apart *)
RowAt(off, bx) == IF bx = 0 THEN 0 ELSE off \div bx
ValueAt(t, M, n, xoff, bx, yoff, by) ==
    LET stated == mats \in StatedMats
    IN KernelValue[IF stated THEN mats ELSE "mixed", t, M, n \div QK_K,
                   IF stated THEN RowAt(xoff, bx) ELSE RowAt(xoff, bx) % Cardinality(RowPats),
                   IF stated THEN RowAt(yoff, by) ELSE RowAt(yoff, by) % Cardinality(ColPats)]

(* One invocation of the width-M kernel of format t (the mul_mat_t call):  *)
(* the stores s[ix + iy*bs] in program order, and the loads.               *)
kernel_stores(t, M, n, s, bs, vx, bx, vy, by, nrc_x) ==
    {[idx |-> s + ix + iy * bs, ord |-> ix * M + iy,
      val |-> ValueAt(t, M, n, vx + ix * bx, bx, vy + iy * by, by)] :
        ix \in 0..(nrc_x - 1), iy \in 0..(M - 1)}

kernel_loadsA(t, n, vx, bx, nrc_x) ==
    {Load(vx + ix * bx + i * BlockBytes(t), r) :
        ix \in 0..(nrc_x - 1), i \in 0..((n \div QK_K) - 1), r \in ALoads(t)}

(* a faulty kernel: the Q8_K loads run one super-block past the row *)
kernel_loadsB_past(t, M, n, vy, by, nrc_x) ==
    {Load(vy + iy * by + i * BlockBytes("Q8_K"), r) :
        iy \in IF nrc_x > 0 THEN 0..(M - 1) ELSE {}, i \in 0..(n \div QK_K),
        r \in BLoads(t)}

kernel_loadsB(t, M, n, vy, by, nrc_x) ==
    {Load(vy + iy * by + i * BlockBytes("Q8_K"), r) :
        iy \in IF nrc_x > 0 THEN 0..(M - 1) ELSE {}, i \in 0..((n \div QK_K) - 1),
        r \in BLoads(t)}

(* an element of C: never stored since it was poisoned, or the float stored *)
Poison == <<>>
Float(v) == <<v>>

(* memory after the stores st: C, the per-element store count, the writers *)
StoreC(c, st) ==
    [k \in DOMAIN c \cup {r.idx : r \in st} |->
        IF \E r \in st : r.idx = k
        THEN Float((CHOOSE r \in st : r.idx = k /\ \A q \in st : q.idx = k => q.ord <= r.ord).val)
        ELSE c[k]]
CountC(cnt, st) ==
    [k \in DOMAIN cnt \cup {r.idx : r \in st} |->
        (IF k \in DOMAIN cnt THEN cnt[k] ELSE 0) + Cardinality({r \in st : r.idx = k})]
WriterC(wr, st, w) ==
    [k \in DOMAIN wr \cup {r.idx : r \in st} |->
        (IF k \in DOMAIN wr THEN wr[k] ELSE {})
            \cup (IF \E r \in st : r.idx = k THEN {w} ELSE {})]

-----------------------------------------------------------------------------
(* mul_mat_NxM: the locals of one run, and the `process` chain 8, 4, 2, 1. *)

NextStep(step) == IF step = 8 THEN 4 ELSE IF step = 4 THEN 2 ELSE IF step = 2 THEN 1 ELSE 0

(* the locals at entry of mul_mat_NxM, before process(mm_nx8, 8) *)
mul_mat_NxM(n, s, bs, vx, bx, vy, by, nrc_x, nrc_y, mm) ==
    [n |-> n, s |-> s, bs |-> bs, vx |-> vx, bx |-> bx, char_y |-> vy, by |-> by,
     nrc_x |-> nrc_x, nrc_y |-> nrc_y, mm |-> mm, step |-> 8, iy |-> 0]

(* a faulty chain: char_y is not advanced past the columns a step handled *)
RECURSIVE processStale(_)
processStale(l) ==
    IF l.step = 0 THEN l
    ELSE IF l.mm = "null" \/ l.nrc_y < l.step
    THEN processStale([l EXCEPT !.step = NextStep(l.step), !.iy = 0])
    ELSE LET n_step == l.nrc_y \div l.step
         IN IF l.iy < n_step THEN l
            ELSE IF l.nrc_y - l.step * n_step = 0
            THEN [l EXCEPT !.nrc_y = 0, !.step = 0]
            ELSE processStale([l EXCEPT !.nrc_y = @ - l.step * n_step,
                                        !.s = @ + l.step * n_step * l.bs,
                                        !.step = NextStep(l.step), !.iy = 0])

(* runs the chain from the locals l up to the next kernel call (step > 0,
   iy < n_step) or to its end (step = 0) *)
RECURSIVE process(_)
process(l) ==
    IF l.step = 0 THEN l
    ELSE IF l.mm = "null" \/ l.nrc_y < l.step
    THEN process([l EXCEPT !.step = NextStep(l.step), !.iy = 0])
    ELSE LET n_step == l.nrc_y \div l.step
         IN IF l.iy < n_step THEN l
            ELSE IF l.nrc_y - l.step * n_step = 0
            THEN [l EXCEPT !.nrc_y = 0, !.step = 0]
            ELSE process([l EXCEPT !.nrc_y = @ - l.step * n_step,
                                   !.char_y = @ + l.step * n_step * l.by,
                                   !.s = @ + l.step * n_step * l.bs,
                                   !.step = NextStep(l.step), !.iy = 0])

(* the arguments of the kernel call pending in l *)
CallOf(l) ==
    [width |-> l.step, s |-> l.s + l.step * l.iy * l.bs,
     vy |-> l.char_y + l.step * l.iy * l.by]

(* the stores of the kernel call pending in l *)
StoresOf(l) ==
    kernel_stores(l.mm, l.step, l.n, CallOf(l).s, l.bs, l.vx, l.bx, CallOf(l).vy, l.by,
                  l.nrc_x)

(* a faulty switch: the default case falls through *)
HandledAlways(t) == TRUE

(* the switch on typeA: is one of the six cases taken *)
Handled(t) == t \in SupportedTypes

(* a faulty slice: the last worker's row count is not clamped to Nx *)
SliceUnclamped(ith, n_th) ==
    [first_x |-> ith * ((Nx + n_th - 1) \div n_th), nrc_x |-> (Nx + n_th - 1) \div n_th]

(* a faulty call: the A base is advanced by ith rows, not by first_x rows *)
iqk_mul_mat_ith(ith, n_th) ==
    LET nrc_x == (Nx + n_th - 1) \div n_th
        first_x == ith * nrc_x
    IN mul_mat_NxM(ne00, first_x, stride_C, ggml_row_size(typeA, ne00) * ith,
                   ggml_row_size(typeA, ne00), 0, ggml_row_size("Q8_K", ne00),
                   IF first_x + nrc_x > Nx THEN Nx - first_x ELSE nrc_x, Ny,
                   IF typeA \in SupportedTypes THEN typeA ELSE "null")

(* iqk_mul_mat after the switch: the slice of worker ith and the call of
   mul_mat_NxM *)
SliceOf(ith, n_th) ==
    LET nrc_x == (Nx + n_th - 1) \div n_th
        first_x == ith * nrc_x
    IN [first_x |-> first_x,
        nrc_x |-> IF first_x + nrc_x > Nx THEN Nx - first_x ELSE nrc_x]

iqk_mul_mat(ith, n_th) ==
    LET row_size_qx == ggml_row_size(typeA, ne00)
        row_size_q8 == ggml_row_size("Q8_K", ne00)
        sl == SliceOf(ith, n_th)
    IN mul_mat_NxM(ne00, sl.first_x, stride_C, row_size_qx * sl.first_x, row_size_qx,
                   0, row_size_q8, sl.nrc_x, Ny,
                   IF typeA \in SupportedTypes THEN typeA ELSE "null")

Workers == 0..(nth - 1)
Finished(w) == pc[w] \in {"done", "unhandled", "aborted"}

(* a faulty entry: the switch on typeA precedes the assertion *)
DispatchSwitchFirst(w) ==
    /\ pc[w] = "start"
    /\ serial => \A v \in Workers : v < w => Finished(v)
    /\ IF ~Handled(typeA)
       THEN /\ pc' = [pc EXCEPT ![w] = "unhandled"]
            /\ ret' = [ret EXCEPT ![w] = "false"]
            /\ UNCHANGED wk
       ELSE IF ne00 % QK_K # 0
       THEN /\ pc' = [pc EXCEPT ![w] = "aborted"]
            /\ UNCHANGED <<wk, ret>>
       ELSE /\ pc' = [pc EXCEPT ![w] = "peel"]
            /\ wk' = [wk EXCEPT ![w] = process(iqk_mul_mat(w, nth))]
            /\ UNCHANGED ret
    /\ UNCHANGED <<mats, Nx, Ny, ne00, typeA, nth, stride_C, serial, C, nwrites, writer, calls,
                   loadsA, loadsB>>
    /\ UNCHANGED <<kernvars, signvars, scalevars>>

(* entry of the call of worker w: the assertion, the switch on typeA, the
   slice; control stops in front of the first kernel call *)
Dispatch(w) ==
    /\ pc[w] = "start"
    /\ serial => \A v \in Workers : v < w => Finished(v)
    /\ IF ne00 % QK_K # 0
       THEN /\ pc' = [pc EXCEPT ![w] = "aborted"]
            /\ UNCHANGED <<wk, ret>>
       ELSE IF ~Handled(typeA)
       THEN /\ pc' = [pc EXCEPT ![w] = "unhandled"]
            /\ ret' = [ret EXCEPT ![w] = "false"]
            /\ UNCHANGED wk
       ELSE /\ pc' = [pc EXCEPT ![w] = "peel"]
            /\ wk' = [wk EXCEPT ![w] = process(iqk_mul_mat(w, nth))]
            /\ UNCHANGED ret
    /\ UNCHANGED <<mats, Nx, Ny, ne00, typeA, nth, stride_C, serial, C, nwrites, writer, calls,
                   loadsA, loadsB>>
    /\ UNCHANGED <<kernvars, signvars, scalevars>>

(* one micro-kernel call of worker w, and the chain up to the next one *)
Kernel(w) ==
    /\ pc[w] = "peel"
    /\ wk[w].step # 0
    /\ LET l == wk[w]
           c == CallOf(l)
           st == StoresOf(l)
       IN /\ C' = StoreC(C, st)
          /\ nwrites' = CountC(nwrites, st)
          /\ writer' = WriterC(writer, st, w)
          /\ calls' = [calls EXCEPT ![w] = Append(@, c)]
          /\ loadsA' = [loadsA EXCEPT ![w] =
                            @ \cup kernel_loadsA(l.mm, l.n, l.vx, l.bx, l.nrc_x)]
          /\ loadsB' = [loadsB EXCEPT ![w] =
                            @ \cup kernel_loadsB(l.mm, c.width, l.n, c.vy, l.by, l.nrc_x)]
          /\ wk' = [wk EXCEPT ![w] = process([l EXCEPT !.iy = @ + 1])]
    /\ UNCHANGED <<mats, Nx, Ny, ne00, typeA, nth, stride_C, serial, pc, ret>>
    /\ UNCHANGED <<kernvars, signvars, scalevars>>

(* the chain has ended: return true *)
Return(w) ==
    /\ pc[w] = "peel"
    /\ wk[w].step = 0
    /\ pc' = [pc EXCEPT ![w] = "done"]
    /\ ret' = [ret EXCEPT ![w] = "true"]
    /\ UNCHANGED <<mats, Nx, Ny, ne00, typeA, nth, stride_C, serial, wk, C, nwrites, writer,
                   calls, loadsA, loadsB>>
    /\ UNCHANGED <<kernvars, signvars, scalevars>>

Idle == [n |-> 0, s |-> 0, bs |-> 0, vx |-> 0, bx |-> 0, char_y |-> 0, by |-> 0,
         nrc_x |-> 0, nrc_y |-> 0, mm |-> "null", step |-> 0, iy |-> 0]

(* nth calls ith = 0..nth-1 on one problem whose matrices are m, C poisoned
   beforehand; the bench variables are idle *)
CallsOn(p, m) ==
    /\ mats = m
    /\ sfield = <<>> /\ skind = "none" /\ sdec = <<>>
    /\ Nx = p.Nx /\ Ny = p.Ny /\ ne00 = p.ne00 /\ typeA = p.typeA /\ nth = p.nth
    /\ stride_C = p.stride_C /\ serial = p.serial
    /\ pc = [w \in 0..(p.nth - 1) |-> "start"]
    /\ wk = [w \in 0..(p.nth - 1) |-> Idle]
    /\ ret = [w \in 0..(p.nth - 1) |-> "none"]
    /\ C = [k \in 0..(p.stride_C * p.Ny - 1) |-> Poison]
    /\ nwrites = [k \in 0..(p.stride_C * p.Ny - 1) |-> 0]
    /\ writer = [k \in 0..(p.stride_C * p.Ny - 1) |-> {}]
    /\ calls = [w \in 0..(p.nth - 1) |-> <<>>]
    /\ loadsA = [w \in 0..(p.nth - 1) |-> {}]
    /\ loadsB = [w \in 0..(p.nth - 1) |-> {}]
    /\ kt = "none" /\ kx = <<>> /\ ky = <<>> /\ kstage = 0 /\ kout = <<>> /\ klane = <<>>
    /\ msx = 0 /\ msy = 0 /\ msp = 0

Calls(p) == CallsOn(p, "mixed")

Problem(nx, ny, ne, t, n, st, ser) ==
    [Nx |-> nx, Ny |-> ny, ne00 |-> ne, typeA |-> t, nth |-> n, stride_C |-> st,
     serial |-> ser]

MaxNx == 3
MaxNy == 3
MaxNth == 3
TypeTags == SupportedTypes \cup {"F32", "Q8_K"}

(* every tag, ne00 a multiple of QK_K or not; up to three workers run
   concurrently, more run one after the other *)
Init ==
    \E nx \in 0..MaxNx, ny \in 0..MaxNy, b \in 0..MaxBlocks, odd \in {0, QK_K \div 2},
       t \in TypeTags, n \in 1..MaxNth, pad \in 0..1 :
        Calls(Problem(nx, ny, QK_K * b + odd, t, n, nx + pad, n > 3))

Next ==
    \/ \E w \in Workers : Dispatch(w)
    \/ \E w \in Workers : Kernel(w)
    \/ \E w \in Workers : Return(w)

Spec == Init /\ [][Next]_vars

-----------------------------------------------------------------------------
(* Further problem sets for the shim.                                      *)

MaxPeelNy == 17
MaxPartNx == 5
PartNth == {1, 2, 4, 7, 16}

(* column peeling: up to MaxPeelNy columns, one or two workers *)
InitPeel ==
    \E nx \in 1..2, ny \in 0..MaxPeelNy, b \in 0..MaxBlocks, t \in SupportedTypes,
       n \in 1..2 :
        Calls(Problem(nx, ny, QK_K * b, t, n, nx, FALSE))

SpecPeel == InitPeel /\ [][Next]_vars

(* thread partitions: the calls ith = 0..nth-1 one after the other, for
   nth <= 2 also interleaved *)
InitPart ==
    \E nx \in 0..MaxPartNx, ny \in 0..MaxNy, b \in 0..MaxBlocks, t \in SupportedTypes,
       n \in PartNth, ser \in BOOLEAN :
        /\ ser \/ n <= 2
        /\ Calls(Problem(nx, ny, QK_K * b, t, n, nx, ser))

SpecPart == InitPart /\ [][Next]_vars

(* calls on the matrices with stated contents: one super-block per row
   (ne00 = 256), Nx = Ny = 1 for "iq4_zero" and Nx = Ny = 4 for the Q3_K
   matrices, C with or without padding *)
InitStated ==
    \E m \in StatedMats, n \in 1..MaxNth, pad \in 0..1 :
        LET k == IF m = "iq4_zero" THEN 1 ELSE 4
            t == IF m = "iq4_zero" THEN "IQ4_XS" ELSE "Q3_K"
        IN CallsOn(Problem(k, k, QK_K, t, n, k + pad, n > 3), m)

SpecStated == InitStated /\ [][Next]_vars

-----------------------------------------------------------------------------
(* Claims about the shim.                                                  *)

AllFinished == \A w \in Workers : Finished(w)
Ceil(a, b) == CHOOSE q \in 0..a : q * b >= a /\ (q = 0 \/ (q - 1) * b < a)
Min(a, b) == IF a < b THEN a ELSE b
(* the rows the partition assigns to worker ith *)
RowsOf(ith) ==
    {r \in 0..(Nx - 1) : ith * Ceil(Nx, nth) <= r /\ r < Min(Nx, (ith + 1) * Ceil(Nx, nth))}
CIndex(ix, iy) == ix + iy * stride_C
Runs == ne00 % QK_K = 0 /\ typeA \in SupportedTypes

(* C1: the row slices of the workers ith = 0..nth-1 are pairwise disjoint and
   cover [0, Nx); worker ith stores only into rows [ith*nrc_x, min(Nx,
   (ith+1)*nrc_x)) of C, a worker whose first row is >= Nx stores nothing;
   under every interleaving no element of C is stored by two workers, and
   once all calls have returned every C[ix + iy*stride_C], ix < Nx, iy < Ny,
   has been stored exactly once. *)
C1_Partition ==
    /\ \A v, w \in Workers : v # w => RowsOf(v) \cap RowsOf(w) = {}
    /\ UNION {RowsOf(w) : w \in Workers} = 0..(Nx - 1)
    /\ \A w \in Workers :
          {r \in 0..(Nx + nth) : /\ SliceOf(w, nth).first_x <= r
                               /\ r < SliceOf(w, nth).first_x + SliceOf(w, nth).nrc_x}
              = RowsOf(w)
    /\ \A k \in DOMAIN nwrites :
          /\ nwrites[k] <= 1
          /\ Cardinality(writer[k]) <= 1
          /\ \A w \in writer[k] : \E r \in RowsOf(w), iy \in 0..(Ny - 1) : k = CIndex(r, iy)
    /\ \A w \in Workers : w * Ceil(Nx, nth) >= Nx => \A k \in DOMAIN writer : w \notin writer[k]
    /\ (AllFinished /\ Runs) =>
          \A ix \in 0..(Nx - 1), iy \in 0..(Ny - 1) :
              /\ CIndex(ix, iy) \in DOMAIN nwrites
              /\ nwrites[CIndex(ix, iy)] = 1
              /\ \E w \in Workers : ix \in RowsOf(w) /\ writer[CIndex(ix, iy)] = {w}

(* three workers, one of them past the last row, have all returned *)
C1_Witness ==
    /\ AllFinished /\ Runs /\ nth = 3 /\ Nx = 2 /\ Ny = 3 /\ ne00 = QK_K
    /\ \A k \in DOMAIN nwrites : ((k % stride_C) < Nx) => nwrites[k] = 1
    /\ RowsOf(2) = {} /\ calls[2] # <<>>

RECURSIVE SumWidths(_, _)
SumWidths(cs, n) == IF n = 0 THEN 0 ELSE cs[n].width + SumWidths(cs, n - 1)
Count(cs, M) == Cardinality({i \in 1..Len(cs) : cs[i].width = M})

(* C2: mul_mat_NxM calls the 8-column kernel floor(Ny/8) times, then the 4-,
   2- and 1-column kernels at most once each, in that order; the call that
   starts at column c gets B base vy + c*by and C base s + c*bs, the starting
   columns run contiguously from 0, and at return the widths sum to Ny (no
   call at all when Ny = 0). *)
C2_PeelOrder ==
    \A w \in Workers : pc[w] \in {"peel", "done"} =>
        LET cs == calls[w]
            by == ggml_row_size("Q8_K", ne00)
            s0 == w * Ceil(Nx, nth)
        IN /\ \A i \in 1..Len(cs) :
                 /\ cs[i].width \in Widths
                 /\ cs[i].vy = SumWidths(cs, i - 1) * by
                 /\ cs[i].s = s0 + SumWidths(cs, i - 1) * stride_C
                 /\ i > 1 => cs[i - 1].width >= cs[i].width
           /\ Count(cs, 8) <= Ny \div 8
           /\ \A M \in {1, 2, 4} : Count(cs, M) <= 1
           /\ SumWidths(cs, Len(cs)) <= Ny
           /\ pc[w] = "done" =>
                 /\ SumWidths(cs, Len(cs)) = Ny
                 /\ Count(cs, 8) = Ny \div 8
                 /\ Ny = 0 => cs = <<>>

(* a worker has returned from 15 columns: kernels of width 8, 4, 2, 1 *)
C2_Witness ==
    \E w \in Workers :
        /\ pc[w] = "done" /\ Ny = 15 /\ ne00 = QK_K
        /\ [i \in 1..Len(calls[w]) |-> calls[w][i].width] = <<8, 4, 2, 1>>

(* C3, with the precondition it needs: a call with ne00 a multiple of QK_K
   whose typeA is none of the six supported tags returns false, calls no
   micro-kernel and stores nothing into C (a poisoned C stays poisoned). *)
C3_UnsupportedReturnsFalse ==
    (typeA \notin SupportedTypes /\ ne00 % QK_K = 0) =>
        /\ \A w \in Workers : pc[w] # "start" => pc[w] = "unhandled" /\ ret[w] = "false"
        /\ \A w \in Workers : calls[w] = <<>> /\ loadsA[w] = {} /\ loadsB[w] = {}
        /\ \A k \in DOMAIN C : C[k] = Poison /\ nwrites[k] = 0

(* C3 as stated, for every call: an unsupported typeA makes the call return
   false without a kernel call or a store. *)
C3_AsStated ==
    typeA \notin SupportedTypes =>
        /\ \A w \in Workers : pc[w] # "start" => ret[w] = "false"
        /\ \A w \in Workers : calls[w] = <<>>
        /\ \A k \in DOMAIN C : C[k] = Poison

(* every call on an unsupported tag has returned false over a poisoned C *)
C3_Witness ==
    /\ typeA = "F32" /\ ne00 = QK_K /\ Nx = 2 /\ Ny = 2 /\ nth = 2
    /\ \A w \in Workers : pc[w] = "unhandled" /\ ret[w] = "false"
    /\ \A k \in DOMAIN C : C[k] = Poison

(* the slice the claims give worker ith: its first row and its row count *)
FirstX(ith) == ith * Ceil(Nx, nth)
RowCount(ith) == Cardinality(RowsOf(ith))
InField(t, ld) == 0 <= ld.lo /\ ld.lo < ld.hi /\ ld.hi <= FieldLen(t, ld.fld)

(* C4: in one call on a supported format every load from A lies in one of the
   nb = ne00/256 super-blocks of a row of [first_x, first_x + nrc_x), every
   load from B in one of the nb Q8_K super-blocks (quants, bsums, d) of a
   column of [0, Ny), every store to C goes to first_x + ix + iy*stride_C
   with 0 <= ix < nrc_x, 0 <= iy < Ny, and at return each of these elements
   has been stored exactly once. *)
C4_Footprint ==
    Runs =>
      \A w \in Workers :
        LET nb == ne00 \div QK_K
        IN /\ \A ld \in loadsA[w] :
                 /\ \E ix \in 0..(RowCount(w) - 1), i \in 0..(nb - 1) :
                       ld.off = (FirstX(w) + ix) * nb * BlockBytes(typeA) + i * BlockBytes(typeA)
                 /\ InField(typeA, ld)
           /\ \A ld \in loadsB[w] :
                 /\ \E iy \in 0..(Ny - 1), i \in 0..(nb - 1) :
                       ld.off = iy * nb * BlockBytes("Q8_K") + i * BlockBytes("Q8_K")
                 /\ ld.fld \in {"qs", "bsums", "d"}
                 /\ InField("Q8_K", ld)
           /\ \A k \in DOMAIN writer : w \in writer[k] =>
                 \E ix \in 0..(RowCount(w) - 1), iy \in 0..(Ny - 1) :
                     k = FirstX(w) + ix + iy * stride_C
           /\ \A k \in DOMAIN nwrites : nwrites[k] <= 1
           /\ pc[w] = "done" =>
                 \A ix \in 0..(RowCount(w) - 1), iy \in 0..(Ny - 1) :
                     /\ nwrites[FirstX(w) + ix + iy * stride_C] = 1
                     /\ C[FirstX(w) + ix + iy * stride_C] # Poison

(* the second of two workers has returned from a slice that starts at row 2:
   it loaded its A rows and all B columns *)
C4_Witness ==
    /\ Runs /\ nth = 2 /\ Nx = 3 /\ Ny = 3 /\ ne00 = QK_K /\ stride_C = 4
    /\ pc[1] = "done" /\ FirstX(1) = 2 /\ RowCount(1) = 1
    /\ loadsA[1] # {} /\ Cardinality({ld.off : ld \in loadsB[1]}) = 3
    /\ nwrites[2] = 1 /\ nwrites[6] = 1 /\ nwrites[10] = 1

(* the C the single call (ith, nth) = (0, 1) leaves, and its kernel calls *)
RECURSIVE RunC(_, _)
RunC(l, c) ==
    IF l.step = 0 THEN c ELSE RunC(process([l EXCEPT !.iy = @ + 1]), StoreC(c, StoresOf(l)))
RECURSIVE RunCalls(_)
RunCalls(l) ==
    IF l.step = 0 THEN <<>>
    ELSE <<[width |-> l.step, vy |-> CallOf(l).vy]>> \o RunCalls(process([l EXCEPT !.iy = @ + 1]))
SingleC == RunC(process(iqk_mul_mat(0, 1)), [k \in 0..(stride_C * Ny - 1) |-> Poison])
SingleCalls == RunCalls(process(iqk_mul_mat(0, 1)))

(* C5: for nth in {1, 2, 4, 7, 16} the C assembled by the calls
   ith = 0..nth-1 equals the C of the single call (0, 1); every worker
   applies the same kernel widths to the same columns as the single call. *)
C5_PartitionInvariance ==
    /\ \A w \in Workers : pc[w] = "done" =>
          [i \in 1..Len(calls[w]) |-> [width |-> calls[w][i].width, vy |-> calls[w][i].vy]]
              = SingleCalls
    /\ AllFinished => C = SingleC

(* seven workers have assembled a C of 5 rows and 3 columns *)
C5_Witness ==
    /\ AllFinished /\ nth = 7 /\ Nx = 5 /\ Ny = 3 /\ ne00 = QK_K
    /\ \A k \in DOMAIN C : C[k] # Poison
    /\ C[0] # C[1]

-----------------------------------------------------------------------------
(* The kernel bench: one row kx of A in format kt and one column ky of B;  *)
(* the kernels of width 1, 2, 4, 8 are run on them one after the other.    *)
(* kout[M] is what the width-M kernel stores, klane[M] the least and the   *)
(* greatest exact sum of two byte products one of its maddubs is handed.   *)

KernWidths == <<1, 2, 4, 8>>
KernBlocks == 1

KernRows ==
    {AGen(1, 1, 1, 0, 255, 0, 255, 0), AGen(1, 1, 1, 3, 27, 37, 5, 59),
     AGen(2, 3, 200, 77, 240, 1, 170, 85), AGen(1, 0, 1, 0, 34, 0, 0, 0)}
KernCols ==
    {Q8Block(1, 127, 0, 1), Q8Block(1, 128, 0, 1), Q8Block(2, 3, 30, 1), Q8Block(1, 1, 0, 1)}

(* the super-blocks after the first of a longer row and column *)
TailRow == AGen(2, 1, 3, 5, 19, 7, 11, 13)
TailCol == Q8Block(1, 125, 1, 1)

(* the operands of maddubs for one op: unsigned bytes a, signed bytes b *)
maddubs_operands(op, y, i) ==
    IF op.sgn
    THEN [a |-> mm256_sign_epi8(op.q, op.q),
          b |-> mm256_sign_epi8(load_quants(y, i, op.chunk), op.q)]
    ELSE [a |-> op.q, b |-> load_quants(y, i, op.chunk)]

exact_lanes(t, nrc_y, x, y) ==
    {LET o == maddubs_operands(decode(t, nrc_y, x[i + 1])[n], y, i)
     IN maddubs_exact(o.a, o.b, m) : i \in 0..(Len(x) - 1), n \in 1..8, m \in 0..15}

SetMin(S) == CHOOSE v \in S : \A u \in S : v <= u
SetMax(S) == CHOOSE v \in S : \A u \in S : u <= v

InitKern ==
    /\ Nx = 0 /\ Ny = 0 /\ ne00 = 0 /\ typeA = "none" /\ nth = 0 /\ stride_C = 0
    /\ serial = FALSE /\ pc = <<>> /\ wk = <<>> /\ ret = <<>> /\ C = <<>>
    /\ nwrites = <<>> /\ writer = <<>> /\ calls = <<>> /\ loadsA = <<>> /\ loadsB = <<>>
    /\ msx = 0 /\ msy = 0 /\ msp = 0
    /\ mats = "none" /\ sfield = <<>> /\ skind = "none" /\ sdec = <<>>
    /\ kt \in SupportedTypes
    /\ \E nb \in 1..KernBlocks, g \in KernRows, b \in KernCols :
          /\ kx = [i \in 1..nb |-> ABlock(kt, IF i = 1 THEN g ELSE TailRow)]
          /\ ky = [i \in 1..nb |-> IF i = 1 THEN b ELSE TailCol]
    /\ kstage = 0 /\ kout = <<>> /\ klane = <<>>

RunKernel ==
    /\ kstage < Len(KernWidths)
    /\ LET M == KernWidths[kstage + 1]
           lanes == exact_lanes(kt, M, kx, ky)
       IN /\ kout' = (M :> mul_mat_t(kt, M, QK_K * Len(kx), kx, ky)) @@ kout
          /\ klane' = (M :> [lo |-> SetMin(lanes), hi |-> SetMax(lanes)]) @@ klane
    /\ kstage' = kstage + 1
    /\ UNCHANGED <<kt, kx, ky>>
    /\ UNCHANGED <<shimvars, signvars, scalevars>>

NextKern == RunKernel

SpecKern == InitKern /\ [][NextKern]_vars

(* The kernels of the formats without mins on rows whose every quant is the
   format's mid-point (Q3_K: low bits 0, hmask bit set, 4; Q6_K: ql nibble 0,
   qh bits 0b10, 32) and on columns whose bsums are all zero. *)
MidTypes == {"Q3_K", "Q6_K"}

MidRows(t) ==
    {ABlock(t, [MidScales[r] EXCEPT !.ha = IF t = "Q3_K" THEN 255 ELSE 170]) :
        r \in 1..Len(MidScales)}

ZeroSumCols == {Q8Block(1, 1, 0, 0), Q8Block(2, 3, 30, 0), Q8Block(1, 127, 0, 0),
                Q8Block(1, 0, 0, 0)}

InitMid ==
    /\ Nx = 0 /\ Ny = 0 /\ ne00 = 0 /\ typeA = "none" /\ nth = 0 /\ stride_C = 0
    /\ serial = FALSE /\ pc = <<>> /\ wk = <<>> /\ ret = <<>> /\ C = <<>>
    /\ nwrites = <<>> /\ writer = <<>> /\ calls = <<>> /\ loadsA = <<>> /\ loadsB = <<>>
    /\ msx = 0 /\ msy = 0 /\ msp = 0
    /\ mats = "none" /\ sfield = <<>> /\ skind = "none" /\ sdec = <<>>
    /\ kt \in MidTypes
    /\ \E nb \in 1..KernBlocks, g \in MidRows(kt), b \in ZeroSumCols :
          /\ kx = [i \in 1..nb |-> g]
          /\ ky = [i \in 1..nb |-> b]
    /\ kstage = 0 /\ kout = <<>> /\ klane = <<>>

SpecMid == InitMid /\ [][NextKern]_vars

-----------------------------------------------------------------------------
(* The formats' meaning: element e = 0..255 of a super-block x has the     *)
(* integer quant quant(t, x, e) and lies in sub-block sub_block(t, e),     *)
(* which carries the scale sub_scale and (Q2_K, Q4_K, Q5_K) the min        *)
(* sub_min, as the block layouts define them.                              *)

Bits(v, sh, m) == BitAnd(Shr(v, sh), m)

quant(t, x, e) ==
    LET n == e \div 128
        j == (e % 128) \div 32
        l == e % 32
        p == e \div 64
        h == (e % 64) \div 32
    IN CASE t = "Q2_K" -> Bits(x.qs[32 * n + l], 2 * j, 3)
         [] t = "Q3_K" -> Bits(x.qs[32 * n + l], 2 * j, 3) + 4 * Bits(x.hmask[l], 4 * n + j, 1)
         [] t = "Q4_K" -> Bits(x.qs[32 * p + l], 4 * h, 15)
         [] t = "Q5_K" -> Bits(x.qs[32 * p + l], 4 * h, 15) + 16 * Bits(x.qh[l], 2 * p + h, 1)
         [] t = "Q6_K" -> Bits(x.ql[64 * n + 32 * (j % 2) + l], 4 * (j \div 2), 15)
                             + 16 * Bits(x.qh[32 * n + l], 2 * j, 3)
         [] t = "IQ4_XS" -> kvalues_iq4nl[Bits(x.qs[16 * (e \div 32) + (e % 16)],
                                               4 * ((e % 32) \div 16), 15) + 1]

(* the 6-bit (scale, min) pair of sub-block j of Q4_K and Q5_K *)
get_scale_min_k4(j, q) ==
    IF j < 4 THEN [sc |-> Bits(q[j], 0, 63), m |-> Bits(q[j + 4], 0, 63)]
    ELSE [sc |-> Bits(q[j + 4], 0, 15) + 16 * Bits(q[j - 4], 6, 3),
          m |-> Bits(q[j + 4], 4, 15) + 16 * Bits(q[j], 6, 3)]

sub_scale(t, x, j) ==
    CASE t = "Q2_K" -> Bits(x.scales[j], 0, 15)
      [] t = "Q3_K" -> (IF j < 8 THEN Bits(x.scales[j], 0, 15) ELSE Bits(x.scales[j - 8], 4, 15))
                          + 16 * Bits(x.scales[8 + (j % 4)], 2 * (j \div 4), 3) - 32
      [] t \in {"Q4_K", "Q5_K"} -> get_scale_min_k4(j, x.scales).sc
      [] t = "Q6_K" -> S8(x.scales[j])
      [] t = "IQ4_XS" -> Bits(x.scales_l[j \div 2], 4 * (j % 2), 15)
                            + 16 * Bits(x.scales_h, 2 * j, 3) - 32

sub_min(t, x, j) ==
    CASE t = "Q2_K" -> Bits(x.scales[j], 4, 15)
      [] t \in {"Q4_K", "Q5_K"} -> get_scale_min_k4(j, x.scales).m
      [] OTHER -> 0

(* the offset K subtracted from the quants of Q3_K and Q6_K *)
mid_point(t) == IF t = "Q3_K" THEN 4 ELSE IF t = "Q6_K" THEN 32 ELSE 0

sub_size(t) == IF t \in {"Q4_K", "Q5_K", "IQ4_XS"} THEN 32 ELSE 16

(* sum over the elements e of lo..hi, all of sub-block j, of
   (d_A * sc[j] * (q_e - K) - dmin_A * m[j]) * d_B * qB_e *)
RECURSIVE sub_value(_, _, _, _, _, _)
sub_value(t, x, y, j, lo, hi) ==
    IF lo > hi THEN 0
    ELSE LET dmin == IF t \in {"Q2_K", "Q4_K", "Q5_K"} THEN x.dmin ELSE 0
         IN (x.d * sub_scale(t, x, j) * (quant(t, x, hi) - mid_point(t))
                - dmin * sub_min(t, x, j)) * y.d * y.qs[hi]
            + sub_value(t, x, y, j, lo, hi - 1)

(* ... summed over the sub-blocks j < n of one super-block *)
RECURSIVE block_value(_, _, _, _)
block_value(t, x, y, n) ==
    IF n = 0 THEN 0
    ELSE block_value(t, x, y, n - 1)
            + sub_value(t, x, y, n - 1, sub_size(t) * (n - 1), sub_size(t) * n - 1)

RECURSIVE row_value(_, _, _, _)
row_value(t, x, y, nb) ==
    IF nb = 0 THEN 0 ELSE row_value(t, x, y, nb - 1) + block_value(t, x[nb], y[nb], QK_K \div sub_size(t))

(* each bsum of the column is the sum of its 16 quants *)
TrueSums(y) ==
    \A i \in 1..Len(y), m \in 0..15 : y[i].bsums[m] = SumRange(y[i].qs, 16 * m, 16 * m + 15)

-----------------------------------------------------------------------------
(* Claims about the micro-kernels.                                         *)

Reference == FpUnit * row_value(kt, kx, ky, Len(kx))

(* C6: for every format the value the M-column kernel (M = 2, 4, 8) stores
   for a column equals the value the 1-column kernel stores for the same row
   and column; for Q2_K and Q4_K the split-accumulator variant (M <= 2) and
   the single-accumulator variant (M >= 4) agree. *)
C6_VariantEquivalence == \A M \in DOMAIN kout : kout[M] = kout[1]

(* C7: every exact sum of two products (unsigned A byte) * (signed B byte)
   handed to a 16-bit maddubs lane lies in [-32768, 32767], for every
   format and every M. *)
C7_NoSaturation ==
    \A M \in DOMAIN klane : -32768 <= klane[M].lo /\ klane[M].hi <= 32767

(* C8: for Q2_K, Q4_K, Q5_K and every M, with true bsums, the stored value is
   the sum over super-blocks, sub-blocks j and elements k of
   (d_A*sc[j]*q_k - dmin_A*m[j]) * d_B*qB_k. *)
C8_MinFormula ==
    (kt \in {"Q2_K", "Q4_K", "Q5_K"} /\ TrueSums(ky)) =>
        \A M \in DOMAIN kout : kout[M] = Reference

Q6Scenario ==
    /\ kt = "Q6_K"
    /\ kx = <<ABlock("Q6_K", AGen(1, 0, 1, 0, 34, 0, 0, 0))>>
    /\ ky = <<Q8Block(1, 1, 0, 1)>>

(* C9: for Q3_K and Q6_K and every M, with true bsums, the stored value is
   d_A*d_B*sum_j sc[j]*sum_k (q_k - K)*qB_k summed over super-blocks, K = 4
   for Q3_K and K = 32 for Q6_K; one Q6_K super-block with d = 1, scales 1,
   ql = 0x22, qh = 0 against B with d = 1, quants 1, bsums 16 gives -7680. *)
C9_OffsetFormula ==
    /\ (kt \in {"Q3_K", "Q6_K"} /\ TrueSums(ky)) =>
          \A M \in DOMAIN kout : kout[M] = Reference
    /\ Q6Scenario =>
          /\ kx[1].ql[5] = 34 /\ kx[1].qh[5] = 0 /\ S8(kx[1].scales[5]) = 1
          /\ ky[1].bsums[5] = 16
          /\ \A M \in DOMAIN kout : kout[M] = FpUnit * (-7680)

(* the four Q6_K kernels have run on the scenario *)
C9_Witness == Q6Scenario /\ DOMAIN kout = {1, 2, 4, 8} /\ kout[8] = FpUnit * (-7680)

(* the rows and the column of the bench are as SpecMid sets them: every
   quant of every block of A at the mid-point, every bsum of B zero *)
AtMidPoint ==
    /\ kt \in MidTypes
    /\ \A i \in 1..Len(kx), e \in 0..(QK_K - 1) : quant(kt, kx[i], e) = mid_point(kt)
    /\ \A i \in 1..Len(ky), m \in 0..15 : ky[i].bsums[m] = 0

(* sum over the sub-blocks j < n of sc[j] * (sum of the 16 B quants of j) *)
RECURSIVE ScaledSums(_, _, _, _)
ScaledSums(t, x, y, n) ==
    IF n = 0 THEN 0
    ELSE ScaledSums(t, x, y, n - 1)
            + sub_scale(t, x, n - 1) * SumRange(y.qs, 16 * (n - 1), 16 * n - 1)

RECURSIVE MidValue(_, _, _, _)
MidValue(t, x, y, nb) ==
    IF nb = 0 THEN 0
    ELSE MidValue(t, x, y, nb - 1)
            + mid_point(t) * x[nb].d * y[nb].d * ScaledSums(t, x[nb], y[nb], 16)

(* C13 as stated: for Q3_K and Q6_K, with every bsum zero and every quant of
   A at the mid-point (4, 32), the kernel stores 0 whatever the scales and
   the B quants are. *)
C13_AsStated ==
    AtMidPoint => \A M \in DOMAIN kout : kout[M] = 0

(* C13: for Q3_K and Q6_K, with every bsum zero and every quant of A at the
   mid-point K (4, 32), the kernel of every width stores the uncorrected sum
   K * d_A * d_B * sum_j sc[j] * sum_k qB_k over the super-blocks, whatever
   the scales and the B quants are; it is 0 where those sums vanish. *)
C13_MidPointZeroSums ==
    AtMidPoint =>
        \A M \in DOMAIN kout : kout[M] = FpUnit * MidValue(kt, kx, ky, Len(kx))

(* all four kernels have run on a mid-point row and a column of ones with
   zeroed bsums, and stored a value other than 0 *)
C13_Witness ==
    /\ AtMidPoint /\ DOMAIN kout = {1, 2, 4, 8}
    /\ \A i \in 1..Len(ky), k \in 0..(QK_K - 1) : ky[i].qs[k] = 1
    /\ kout[8] # 0 /\ kout[8] = FpUnit * MidValue(kt, kx, ky, Len(kx))

-----------------------------------------------------------------------------
(* The mul_signed bench: both 256-bit operands repeat one pair of bytes,   *)
(* msx for x (taken from kvalues_iq4nl) and msy for y; msp is the vector   *)
(* mul_signed returns, <<>> before the call.                               *)

SignY == {-128, -127, -64, -1, 0, 1, 64, 127}
Pairs(v) == [k \in 0..31 |-> v[(k % 2) + 1]]

InitSign ==
    /\ Nx = 0 /\ Ny = 0 /\ ne00 = 0 /\ typeA = "none" /\ nth = 0 /\ stride_C = 0
    /\ serial = FALSE /\ pc = <<>> /\ wk = <<>> /\ ret = <<>> /\ C = <<>>
    /\ nwrites = <<>> /\ writer = <<>> /\ calls = <<>> /\ loadsA = <<>> /\ loadsB = <<>>
    /\ kt = "none" /\ kx = <<>> /\ ky = <<>> /\ kstage = 0 /\ kout = <<>> /\ klane = <<>>
    /\ mats = "none" /\ sfield = <<>> /\ skind = "none" /\ sdec = <<>>
    /\ \E i0, i1 \in 1..16 : msx = <<kvalues_iq4nl[i0], kvalues_iq4nl[i1]>>
    /\ msy \in SignY \X SignY
    /\ msp = <<>>

MulSigned ==
    /\ msp = <<>>
    /\ msp' = mul_signed(Pairs(msx), Pairs(msy))
    /\ UNCHANGED <<msx, msy>>
    /\ UNCHANGED <<shimvars, kernvars, scalevars>>

NextSign == MulSigned

SpecSign == InitSign /\ [][NextSign]_vars

(* C10: mul_signed(x, y) = maddubs(sign(x, x), sign(y, x)) holds in every
   16-bit lane exactly x0*y0 + x1*y1, for every x taken from kvalues_iq4nl
   and every y in [-128, 127]. *)
C10_SignedProduct ==
    msp # <<>> => \A m \in 0..15 : msp[m] = msx[1] * msy[1] + msx[2] * msy[2]

-----------------------------------------------------------------------------
(* The scale bench: the packed scales of one super-block sfield of format  *)
(* skind are decoded as the kernel of that format decodes them.  The       *)
(* packed bytes are a base pattern with one byte replaced.                 *)

ScaleKinds == {"Q3_K", "Q4_K", "Q5_K", "IQ4_XS"}
ScaleBases == {<<0, 0>>, <<255, 0>>, <<37, 101>>}
ByteVals == {2 ^ i : i \in 0..7} \cup {0, 255, 170, 85}
ScaleWidths == {1, 4}

(* the packed scale bytes of a format: scales[12], or scales_l[4] followed
   by the two bytes of scales_h *)
PackedLen(kind) == IF kind = "IQ4_XS" THEN 6 ELSE 12

(* a super-block of format kind with the packed scale bytes f *)
BlockOf(kind, f) ==
    LET x == ABlock(kind, AGen(1, 1, 0, 0, 0, 0, 0, 0))
    IN IF kind = "IQ4_XS"
       THEN [x EXCEPT !.scales_l = [k \in 0..3 |-> f[k]], !.scales_h = f[4] + 256 * f[5]]
       ELSE [x EXCEPT !.scales = f]

(* for each of the eight products of the width-M kernel: the chunk of 32
   quants it covers and the 16 madd lanes multiplied into it *)
ScaleLanes(kind, M, x) ==
    LET ops == decode(kind, M, x)
    IN [n \in 1..8 |-> LET op == ops[n] IN [chunk |-> op.chunk, sc |-> op.sc]]

InitScale ==
    /\ Nx = 0 /\ Ny = 0 /\ ne00 = 0 /\ typeA = "none" /\ nth = 0 /\ stride_C = 0
    /\ serial = FALSE /\ pc = <<>> /\ wk = <<>> /\ ret = <<>> /\ C = <<>>
    /\ nwrites = <<>> /\ writer = <<>> /\ calls = <<>> /\ loadsA = <<>> /\ loadsB = <<>>
    /\ kt = "none" /\ kx = <<>> /\ ky = <<>> /\ kstage = 0 /\ kout = <<>> /\ klane = <<>>
    /\ msx = 0 /\ msy = 0 /\ msp = 0 /\ mats = "none"
    /\ skind \in ScaleKinds
    /\ \E b \in ScaleBases, k \in 0..(PackedLen(skind) - 1), v \in ByteVals :
          sfield = BlockOf(skind, [Bytes(PackedLen(skind), b[1], b[2]) EXCEPT ![k] = v])
    /\ sdec = <<>>

(* make_q4_scales and the scales and mins registers of Q4_K and Q5_K *)
Q4Scales ==
    /\ skind \in {"Q4_K", "Q5_K"} /\ sdec = <<>>
    /\ sdec' = [o |-> make_q4_scales(sfield.scales),
                lanes |-> [M \in ScaleWidths |-> ScaleLanes(skind, M, sfield)],
                mins |-> q4_K_mins(sfield)]
    /\ UNCHANGED <<sfield, skind>>
    /\ UNCHANGED <<shimvars, kernvars, signvars>>

(* the scale setup of Q3_K *)
Q3Scales ==
    /\ skind = "Q3_K" /\ sdec = <<>>
    /\ sdec' = [all |-> q3_K_all_scales(sfield),
                lanes |-> [M \in ScaleWidths |-> ScaleLanes(skind, M, sfield)]]
    /\ UNCHANGED <<sfield, skind>>
    /\ UNCHANGED <<shimvars, kernvars, signvars>>

(* the scale setup of IQ4_XS *)
Iq4xsScales ==
    /\ skind = "IQ4_XS" /\ sdec = <<>>
    /\ sdec' = [all |-> iq4_xs_scales128(sfield),
                lanes |-> [M \in ScaleWidths |-> ScaleLanes(skind, M, sfield)]]
    /\ UNCHANGED <<sfield, skind>>
    /\ UNCHANGED <<shimvars, kernvars, signvars>>

NextScale == Q4Scales \/ Q3Scales \/ Iq4xsScales

SpecScale == InitScale /\ [][NextScale]_vars

-----------------------------------------------------------------------------
(* Claims about the packed scales.                                         *)

Q4Done == skind \in {"Q4_K", "Q5_K"} /\ sdec # <<>>

(* byte j of the eight bytes of the words o[lo], o[hi] *)
Q4Byte(o, lo, hi, j) == IF j < 4 THEN o[lo][j] ELSE o[hi][j - 4]

(* C11 as stated: the Q4_K and Q5_K kernels take the eight sub-block scales
   from the bytes of o0 and o2 and the eight mins from the bytes of o1 and
   o3. *)
C11_AsStated ==
    Q4Done =>
        /\ \A M \in ScaleWidths, n \in 1..8, m \in 0..15 :
              sdec.lanes[M][n].sc[m] = Q4Byte(sdec.o, 0, 2, sdec.lanes[M][n].chunk)
        /\ \A j \in 0..7 : sdec.mins[j] = Q4Byte(sdec.o, 1, 3, j)

(* C11: the Q4_K and Q5_K kernels take the eight sub-block scales, multiplied
   into the integer dot products, from the bytes of o0 and o1 and the eight
   sub-block mins, multiplied with the Q8_K bsums, from the bytes of o2 and
   o3. *)
C11_ScalesAndMins ==
    Q4Done =>
        /\ \A M \in ScaleWidths, n \in 1..8, m \in 0..15 :
              sdec.lanes[M][n].sc[m] = Q4Byte(sdec.o, 0, 1, sdec.lanes[M][n].chunk)
        /\ \A j \in 0..7 : sdec.mins[j] = Q4Byte(sdec.o, 2, 3, j)

(* a Q5_K block whose four words differ has been decoded *)
C11_Witness ==
    /\ Q4Done /\ skind = "Q5_K"
    /\ \A a, b \in 0..3 : a # b => sdec.o[a] # sdec.o[b]

(* C12: with a0, a1, a2 the three little-endian words of the 12 bytes,
   o0 = a0 & 0x3F3F3F3F, o2 = a1 & 0x3F3F3F3F, o1 = (a2 & 0x0F0F0F0F) |
   ((a0 >> 2) & 0x30303030), o3 = ((a2 >> 4) & 0x0F0F0F0F) | ((a1 >> 2) &
   0x30303030): byte k of each output is in 0..63 and is made of bits of
   byte k of the inputs only. *)
C12_MakeQ4Scales ==
    Q4Done =>
        \A k \in 0..3 :
            LET a0 == sfield.scales[k]
                a1 == sfield.scales[4 + k]
                a2 == sfield.scales[8 + k]
            IN /\ sdec.o[0][k] = a0 % 64
               /\ sdec.o[2][k] = a1 % 64
               /\ sdec.o[1][k] = (a2 % 16) + 16 * (a0 \div 64)
               /\ sdec.o[3][k] = (a2 \div 16) + 16 * (a1 \div 64)
               /\ \A w \in 0..3 : sdec.o[w][k] \in 0..63

(* top bits of a0 and both nibbles of a2 have been moved *)
C12_Witness ==
    /\ Q4Done /\ skind = "Q4_K"
    /\ \E k \in 0..3 :
          /\ sfield.scales[k] >= 192 /\ sdec.o[1][k] >= 48
          /\ sfield.scales[8 + k] >= 16 /\ sdec.o[3][k] % 16 # 0

Q3Expected(j) ==
    (Bits(sfield.scales[j % 8], 4 * (j \div 8), 15)
        + 16 * Bits(sfield.scales[8 + (j % 4)], 2 * (j \div 4), 3)) - 32

(* C17: the 16 scales the Q3_K kernel reconstructs are, for j in 0..15,
   ((scales[j mod 8] >> 4*(j div 8)) & 0xF | (((scales[8 + j mod 4] >>
   2*(j div 4)) & 3) << 4)) - 32, in sub-block order, each in [-32, 31]. *)
C17_Q3Scales ==
    (skind = "Q3_K" /\ sdec # <<>>) =>
        /\ \A j \in 0..15 : sdec.all[j] = Q3Expected(j) /\ sdec.all[j] \in -32..31
        /\ \A M \in ScaleWidths, n \in 1..8, m \in 0..15 :
              sdec.lanes[M][n].sc[m] = Q3Expected(2 * sdec.lanes[M][n].chunk + (m \div 8))

(* a scale with both its low nibble and its two extra bits set *)
C17_Witness ==
    /\ skind = "Q3_K" /\ sdec # <<>>
    /\ \E j \in 0..15 : sdec.all[j] >= 0 /\ (sdec.all[j] + 32) % 16 # 0
    /\ \E i, j \in 0..15 : sdec.all[i] # sdec.all[j]

IqExpected(ib) ==
    (Bits(sfield.scales_l[ib \div 2], 4 * (ib % 2), 15)
        + 16 * Bits(sfield.scales_h, 2 * ib, 3)) - 32

(* C18: the 8 scales the IQ4_XS kernel reconstructs are, for ib in 0..7,
   (((scales_l[ib div 2] >> 4*(ib mod 2)) & 0xF) | (((scales_h >> 2*ib) & 3)
   << 4)) - 32, in sub-block order, each in [-32, 31], also when bits 14..15
   of tmp32 = scales_h | (scales_h << 14) overlap. *)
C18_Iq4xsScales ==
    (skind = "IQ4_XS" /\ sdec # <<>>) =>
        /\ \A ib \in 0..7 : sdec.all[ib] = IqExpected(ib) /\ sdec.all[ib] \in -32..31
        /\ \A M \in ScaleWidths, n \in 1..8, m \in 0..15 :
              sdec.lanes[M][n].sc[m] = IqExpected(sdec.lanes[M][n].chunk)

(* bits 0..1 of scales_h land on bits 14..15 of tmp32 and differ from them *)
C18_Witness ==
    /\ skind = "IQ4_XS" /\ sdec # <<>>
    /\ sfield.scales_h % 4 # 0
    /\ sfield.scales_h \div 16384 # sfield.scales_h % 4

-----------------------------------------------------------------------------
(* Claims about calls on the matrices with stated contents.                *)

(* the element C[ix, iy] once written, as a real number times FpUnit *)
CAt(ix, iy) == C[ix + iy * stride_C]

(* the IQ4_XS row and the column of ones are as the scenario states them *)
Iq4Stated ==
    LET x == StatedRow("iq4_zero", 0)
        y == StatedCol("iq4_zero", 0)
    IN /\ mats = "iq4_zero" /\ typeA = "IQ4_XS" /\ ne00 = QK_K /\ Nx = 1 /\ Ny = 1
       /\ x.d = 1 /\ x.scales_h = 0
       /\ \A k \in 0..3 : x.scales_l[k] = 32
       /\ \A k \in 0..127 : x.qs[k] = 0
       /\ kvalues_iq4nl[1] = -127
       /\ y.d = 1 /\ TrueSums(<<y>>)
       /\ \A k \in 0..(QK_K - 1) : y.qs[k] = 1

(* C14 as stated: on the IQ4_XS scenario iqk_mul_mat writes
   C[0,0] = 1*(0 - 32)*(-127)*256 = 1,040,384. *)
C14_AsStated ==
    (Iq4Stated /\ AllFinished) => CAt(0, 0) = <<FpUnit * 1040384>>

(* C14: for one IQ4_XS super-block (ne00 = 256, Nx = Ny = 1) with d = 1,
   every scales_l byte 0x20, scales_h = 0, every qs byte 0 (value -127) and
   B with d = 1, every quant 1 and true bsums, iqk_mul_mat writes
   C[0,0] = 1*((0 - 32) + (2 - 32))*(-127)*128 = 1,007,872: the byte 0x20
   holds the scale 0 of an even and the scale 2 of an odd sub-block. *)
C14_Iq4xsScenario ==
    (Iq4Stated /\ AllFinished) =>
        /\ \A j \in 0..7 : sub_scale("IQ4_XS", StatedRow("iq4_zero", 0), j) = 2 * (j % 2) - 32
        /\ CAt(0, 0) = <<FpUnit * 1007872>>
        /\ \A w \in Workers : ret[w] = "true"

(* the single call has returned true with C[0,0] = 1,007,872 written once *)
C14_Witness ==
    /\ Iq4Stated /\ nth = 1 /\ pc[0] = "done" /\ ret[0] = "true"
    /\ CAt(0, 0) = <<FpUnit * 1007872>> /\ nwrites[0] = 1
    /\ Len(calls[0]) = 1

(* the Q3_K matrices of 4 rows and 4 columns, the columns with true bsums *)
Q3Stated(m) ==
    /\ mats = m /\ typeA = "Q3_K" /\ ne00 = QK_K /\ Nx = 4 /\ Ny = 4
    /\ \A c \in 0..3 : TrueSums(<<StatedCol(m, c)>>)

(* C15 as stated: with every qs byte 0b10101010 and every hmask byte 0 every
   C[ix, iy] is 0. *)
C15_AsStated ==
    (/\ Q3Stated("q3_low2") /\ AllFinished
     /\ \A r \in 0..3 : LET x == StatedRow("q3_low2", r)
                        IN /\ \A k \in 0..63 : x.qs[k] = 170
                           /\ \A k \in 0..31 : x.hmask[k] = 0)
        => \A ix, iy \in 0..3 : CAt(ix, iy) = <<0>>

(* C15: for Q3_K with Nx = 4, Ny = 4, ne00 = 256, every qs byte 0 and every
   hmask byte 0xFF (every quant at the mid-point 4), every C[ix, iy] is 0
   for any sub-block scales and any B columns with true bsums. *)
C15_MidPointCancels ==
    (Q3Stated("q3_mid") /\ AllFinished) =>
        /\ \A r \in 0..3, e \in 0..(QK_K - 1) :
              quant("Q3_K", StatedRow("q3_mid", r), e) = mid_point("Q3_K")
        /\ \A ix, iy \in 0..3 : CAt(ix, iy) = <<0>>
        /\ \A w \in Workers : ret[w] = "true"

(* two workers have written the sixteen elements, all 0, for rows of
   different scales; on the stated bytes the quants are 2, not 4 *)
C15_Witness ==
    /\ Q3Stated("q3_mid") /\ AllFinished /\ nth = 2
    /\ \A ix, iy \in 0..3 : CAt(ix, iy) = <<0>> /\ nwrites[ix + iy * stride_C] = 1
    /\ sub_scale("Q3_K", StatedRow("q3_mid", 2), 0) # sub_scale("Q3_K", StatedRow("q3_mid", 0), 0)
    /\ quant("Q3_K", StatedRow("q3_low2", 0), 0) = 2

-----------------------------------------------------------------------------
(* Claims about the failure behaviour of iqk_mul_mat.                      *)

(* C16: a call with ne00 not a multiple of QK_K ends in the assertion
   failure whatever typeA is: no micro-kernel is invoked, no element of C is
   written and nothing is returned; a call with ne00 a multiple of QK_K and
   a supported tag never fails: it runs the kernels of its tag and returns
   true. *)
C16_AssertionFirst ==
    /\ ne00 % QK_K # 0 =>
          /\ \A w \in Workers :
                /\ pc[w] \in {"start", "aborted"} /\ ret[w] = "none"
                /\ calls[w] = <<>> /\ loadsA[w] = {} /\ loadsB[w] = {}
          /\ \A k \in DOMAIN C : C[k] = Poison /\ nwrites[k] = 0
    /\ (ne00 % QK_K = 0 /\ typeA \in SupportedTypes) =>
          \A w \in Workers :
              /\ pc[w] \in {"start", "peel", "done"}
              /\ ret[w] = (IF pc[w] = "done" THEN "true" ELSE "none")
              /\ pc[w] = "peel" => wk[w].mm = typeA

(* both workers of a call with a supported and with an unsupported tag have
   hit the assertion, over a C they would otherwise have written *)
C16_Witness ==
    /\ ne00 = QK_K \div 2 /\ typeA \in {"Q4_K", "F32"} /\ Nx = 2 /\ Ny = 2 /\ nth = 2
    /\ \A w \in Workers : pc[w] = "aborted" /\ ret[w] = "none"

=============================================================================
